---- MODULE Spec2Model ----
(***************************************************************************)
(* A model of the uACPI AML interpreter's method execution engine          *)
(* (source/interpreter.c): the driver loop of uacpi_execute_control_method,*)
(* the call-frame stack, the per-frame op-context stack walked by exec_op, *)
(* the code-block stack (If/Else/While/Scope), reference counted objects   *)
(* and the temporary namespace nodes of a frame.                           *)
(*                                                                         *)
(* Bytecode is a sequence of bytes (naturals 0..255); code_offset is the   *)
(* 0-based offset of the C code, so the byte under the cursor is           *)
(* code[code_offset + 1].  Pointers into the dynamic arrays are modelled   *)
(* as 1-based indices, 0 standing for UACPI_NULL.                          *)
(*                                                                         *)
(* The object table is finite: uacpi_create_object returns UACPI_NULL when *)
(* it is full, and the callers report UACPI_STATUS_OUT_OF_MEMORY as the    *)
(* code does.  The dynamic arrays themselves never fail to grow.           *)
(***************************************************************************)
EXTENDS Integers, Sequences, FiniteSets, TLC

(***************************************************************************)
(* Bounds of the model.                                                    *)
(***************************************************************************)
\* nesting depth of the generated block chains
MaxDepth == 2
\* size of the object table
MaxObjects == 12
\* number of namespace node slots
MaxNodes == 5

(***************************************************************************)
(* enum item_type                                                          *)
(***************************************************************************)
ITEM_NONE == 0
ITEM_NAMESPACE_NODE == 1
ITEM_NAMESPACE_NODE_METHOD_LOCAL == 2
ITEM_OBJECT == 3
ITEM_EMPTY_OBJECT == 4
ITEM_PACKAGE_LENGTH == 5
ITEM_IMMEDIATE == 6

(***************************************************************************)
(* enum code_block_type                                                    *)
(***************************************************************************)
CODE_BLOCK_IF == 1
CODE_BLOCK_ELSE == 2
CODE_BLOCK_WHILE == 3
CODE_BLOCK_SCOPE == 4

(***************************************************************************)
(* enum uacpi_parse_op (opcodes.h): the parser micro-ops.  END is 0, so    *)
(* the zero tail of a decode_ops array ends every parse program.           *)
(***************************************************************************)
UACPI_PARSE_OP_END == 0
UACPI_PARSE_OP_SIMPLE_NAME == 1
UACPI_PARSE_OP_SUPERNAME == 2
UACPI_PARSE_OP_SUPERNAME_IMPLICIT_DEREF == 3
UACPI_PARSE_OP_SUPERNAME_OR_UNRESOLVED == 4
UACPI_PARSE_OP_TERM_ARG == 5
UACPI_PARSE_OP_TERM_ARG_UNWRAP_INTERNAL == 6
UACPI_PARSE_OP_TERM_ARG_OR_NAMED_OBJECT == 7
UACPI_PARSE_OP_TERM_ARG_OR_NAMED_OBJECT_OR_UNRESOLVED == 8
UACPI_PARSE_OP_OPERAND == 9
UACPI_PARSE_OP_COMPUTATIONAL_DATA == 10
UACPI_PARSE_OP_TARGET == 11
UACPI_PARSE_OP_PKGLEN == 12
UACPI_PARSE_OP_TRACKED_PKGLEN == 13
UACPI_PARSE_OP_CREATE_NAMESTRING == 14
UACPI_PARSE_OP_EXISTING_NAMESTRING == 15
UACPI_PARSE_OP_EXISTING_NAMESTRING_OR_NULL == 16
UACPI_PARSE_OP_INVOKE_HANDLER == 17
UACPI_PARSE_OP_OBJECT_ALLOC == 18
UACPI_PARSE_OP_EMPTY_OBJECT_ALLOC == 19
UACPI_PARSE_OP_OBJECT_CONVERT_TO_SHALLOW_COPY == 20
UACPI_PARSE_OP_OBJECT_CONVERT_TO_DEEP_COPY == 21
UACPI_PARSE_OP_OBJECT_ALLOC_TYPED == 22
UACPI_PARSE_OP_RECORD_AML_PC == 23
UACPI_PARSE_OP_LOAD_INLINE_IMM_AS_OBJECT == 24
UACPI_PARSE_OP_LOAD_INLINE_IMM == 25
UACPI_PARSE_OP_LOAD_IMM == 26
UACPI_PARSE_OP_LOAD_IMM_AS_OBJECT == 27
UACPI_PARSE_OP_LOAD_FALSE_OBJECT == 28
UACPI_PARSE_OP_LOAD_TRUE_OBJECT == 29
UACPI_PARSE_OP_TRUNCATE_NUMBER == 30
UACPI_PARSE_OP_TYPECHECK == 31
UACPI_PARSE_OP_INSTALL_NAMESPACE_NODE == 32
UACPI_PARSE_OP_OBJECT_TRANSFER_TO_PREV == 33
UACPI_PARSE_OP_OBJECT_COPY_TO_PREV == 34
UACPI_PARSE_OP_STORE_TO_TARGET == 35
UACPI_PARSE_OP_STORE_TO_TARGET_INDIRECT == 36
UACPI_PARSE_OP_UNREACHABLE == 37
UACPI_PARSE_OP_BAD_OPCODE == 38
UACPI_PARSE_OP_AML_PC_DECREMENT == 39
UACPI_PARSE_OP_IMM_DECREMENT == 40
UACPI_PARSE_OP_IF_HAS_DATA == 41
UACPI_PARSE_OP_IF_NULL == 42
UACPI_PARSE_OP_IF_NOT_NULL == 43
UACPI_PARSE_OP_IF_EQUALS == 44
UACPI_PARSE_OP_JMP == 45
UACPI_PARSE_OP_DISPATCH_METHOD_CALL == 46
UACPI_PARSE_OP_CONVERT_NAMESTRING == 47
UACPI_PARSE_OP_TODO == 48

(***************************************************************************)
(* AML opcodes (opcodes.h).  The values below 0x100 are the encodings of   *)
(* the ACPI specification; the InternalOp* codes are synthetic.            *)
(***************************************************************************)
UACPI_AML_OP_ZeroOp == 0
UACPI_AML_OP_OneOp == 1
UACPI_AML_OP_NameOp == 8
UACPI_AML_OP_ScopeOp == 16
UACPI_AML_OP_PackageOp == 18
UACPI_AML_OP_VarPackageOp == 19
UACPI_AML_OP_ExternalOp == 21
UACPI_AML_OP_Local0Op == 96
UACPI_AML_OP_Arg0Op == 104
UACPI_AML_OP_StoreOp == 112
UACPI_AML_OP_RefOfOp == 113
UACPI_AML_OP_DivideOp == 120
UACPI_AML_OP_DerefOfOp == 131
UACPI_AML_OP_ModOp == 133
UACPI_AML_OP_CreateDWordFieldOp == 138
UACPI_AML_OP_CreateWordFieldOp == 139
UACPI_AML_OP_CreateByteFieldOp == 140
UACPI_AML_OP_CreateBitFieldOp == 141
UACPI_AML_OP_CreateQWordFieldOp == 143
UACPI_AML_OP_ToBufferOp == 150
UACPI_AML_OP_ToDecimalStringOp == 151
UACPI_AML_OP_ToHexStringOp == 152
UACPI_AML_OP_ToIntegerOp == 153
UACPI_AML_OP_CopyObjectOp == 157
UACPI_AML_OP_ContinueOp == 159
UACPI_AML_OP_IfOp == 160
UACPI_AML_OP_ElseOp == 161
UACPI_AML_OP_WhileOp == 162
UACPI_AML_OP_NoopOp == 163
UACPI_AML_OP_ReturnOp == 164
UACPI_AML_OP_BreakOp == 165
UACPI_AML_OP_InternalOpNamedObject == 768
UACPI_AML_OP_InternalOpMethodCall0Args == 769
UACPI_AML_OP_InternalOpNameString == 780
UACPI_AML_OP_Reserved == 999
UACPI_AML_OP_CreateFieldOp == 23315

\* characters of name strings
UACPI_NULL_NAME == 0
UACPI_DUAL_NAME_PREFIX == 46
UACPI_MULTI_NAME_PREFIX == 47
RootChar == 92
ParentPrefixChar == 94

NameChars == (48 .. 57) \cup (65 .. 90) \cup {95}

\* the segments FOO_, BAR_ and MTH_ used by the generated methods
SegFOO == <<70, 79, 79, 95>>
SegBAR == <<66, 65, 82, 95>>
SegMTH == <<77, 84, 72, 95>>

(***************************************************************************)
(* Op specs (opcodes.h): code, property flags and parse program.           *)
(***************************************************************************)
OpSpec(code, props, ops) == [code |-> code, properties |-> props, decode_ops |-> ops]

ImmQword(v) == <<v, 0, 0, 0, 0, 0, 0, 0>>

LocalOrArgProgram ==
    << UACPI_PARSE_OP_EMPTY_OBJECT_ALLOC,
       UACPI_PARSE_OP_INVOKE_HANDLER,
       UACPI_PARSE_OP_OBJECT_TRANSFER_TO_PREV,
       UACPI_PARSE_OP_END >>

uacpi_get_op_spec(code) ==
    CASE code = UACPI_AML_OP_ZeroOp ->
           OpSpec(code, {"TARGET", "TERM_ARG"},
                  <<UACPI_PARSE_OP_LOAD_INLINE_IMM_AS_OBJECT>> \o ImmQword(0)
                  \o <<UACPI_PARSE_OP_OBJECT_TRANSFER_TO_PREV, UACPI_PARSE_OP_END>>)
      [] code = UACPI_AML_OP_OneOp ->
           OpSpec(code, {"TERM_ARG"},
                  <<UACPI_PARSE_OP_LOAD_INLINE_IMM_AS_OBJECT>> \o ImmQword(1)
                  \o <<UACPI_PARSE_OP_OBJECT_TRANSFER_TO_PREV, UACPI_PARSE_OP_END>>)
      [] code = UACPI_AML_OP_NameOp ->
           OpSpec(code, {},
                  << UACPI_PARSE_OP_CREATE_NAMESTRING,
                     UACPI_PARSE_OP_TERM_ARG_UNWRAP_INTERNAL,
                     UACPI_PARSE_OP_INVOKE_HANDLER,
                     UACPI_PARSE_OP_INSTALL_NAMESPACE_NODE, 0,
                     UACPI_PARSE_OP_END >>)
      [] code = UACPI_AML_OP_ScopeOp ->
           OpSpec(code, {},
                  << UACPI_PARSE_OP_PKGLEN,
                     UACPI_PARSE_OP_EXISTING_NAMESTRING,
                     UACPI_PARSE_OP_INVOKE_HANDLER,
                     UACPI_PARSE_OP_END >>)
      [] code = UACPI_AML_OP_Local0Op ->
           OpSpec(code, {"TERM_ARG", "SUPERNAME", "SIMPLE_NAME"}, LocalOrArgProgram)
      [] code = UACPI_AML_OP_Arg0Op ->
           OpSpec(code, {"TERM_ARG", "SUPERNAME", "SIMPLE_NAME"}, LocalOrArgProgram)
      [] code = UACPI_AML_OP_StoreOp ->
           OpSpec(code, {"TERM_ARG"},
                  << UACPI_PARSE_OP_TERM_ARG,
                     UACPI_PARSE_OP_OBJECT_COPY_TO_PREV,
                     UACPI_PARSE_OP_SUPERNAME,
                     UACPI_PARSE_OP_INVOKE_HANDLER,
                     UACPI_PARSE_OP_END >>)
      [] code \in {UACPI_AML_OP_IfOp, UACPI_AML_OP_WhileOp} ->
           OpSpec(code, {},
                  << UACPI_PARSE_OP_PKGLEN,
                     UACPI_PARSE_OP_OPERAND,
                     UACPI_PARSE_OP_INVOKE_HANDLER,
                     UACPI_PARSE_OP_END >>)
      [] code = UACPI_AML_OP_ElseOp ->
           OpSpec(code, {},
                  << UACPI_PARSE_OP_PKGLEN,
                     UACPI_PARSE_OP_INVOKE_HANDLER,
                     UACPI_PARSE_OP_END >>)
      [] code = UACPI_AML_OP_NoopOp ->
           OpSpec(code, {}, <<UACPI_PARSE_OP_END>>)
      [] code = UACPI_AML_OP_ReturnOp ->
           OpSpec(code, {},
                  << UACPI_PARSE_OP_TERM_ARG_UNWRAP_INTERNAL,
                     UACPI_PARSE_OP_INVOKE_HANDLER,
                     UACPI_PARSE_OP_END >>)
      [] code \in {UACPI_AML_OP_BreakOp, UACPI_AML_OP_ContinueOp} ->
           OpSpec(code, {},
                  <<UACPI_PARSE_OP_INVOKE_HANDLER, UACPI_PARSE_OP_END>>)
      [] code = UACPI_AML_OP_InternalOpNameString ->
           OpSpec(code, {"TERM_ARG", "SUPERNAME", "SIMPLE_NAME"},
                  << UACPI_PARSE_OP_AML_PC_DECREMENT,
                     UACPI_PARSE_OP_EXISTING_NAMESTRING_OR_NULL,
                     UACPI_PARSE_OP_CONVERT_NAMESTRING,
                     UACPI_PARSE_OP_END >>)
      [] code = UACPI_AML_OP_InternalOpNamedObject ->
           OpSpec(code, {"TERM_ARG", "SUPERNAME", "SIMPLE_NAME"},
                  << UACPI_PARSE_OP_EMPTY_OBJECT_ALLOC,
                     UACPI_PARSE_OP_INVOKE_HANDLER,
                     UACPI_PARSE_OP_OBJECT_TRANSFER_TO_PREV,
                     UACPI_PARSE_OP_END >>)
      [] code \in UACPI_AML_OP_InternalOpMethodCall0Args
                   .. UACPI_AML_OP_InternalOpMethodCall0Args + 7 ->
           OpSpec(code, {"TERM_ARG"},
                  << UACPI_PARSE_OP_LOAD_INLINE_IMM, 1,
                     code - UACPI_AML_OP_InternalOpMethodCall0Args,
                     UACPI_PARSE_OP_IF_NOT_NULL, 1, 6,
                     UACPI_PARSE_OP_TERM_ARG_UNWRAP_INTERNAL,
                     UACPI_PARSE_OP_OBJECT_CONVERT_TO_SHALLOW_COPY,
                     UACPI_PARSE_OP_IMM_DECREMENT, 1,
                     UACPI_PARSE_OP_JMP, 3,
                     UACPI_PARSE_OP_OBJECT_ALLOC,
                     UACPI_PARSE_OP_DISPATCH_METHOD_CALL,
                     UACPI_PARSE_OP_OBJECT_TRANSFER_TO_PREV,
                     UACPI_PARSE_OP_END >>)
      [] OTHER ->
           OpSpec(UACPI_AML_OP_Reserved, {"RESERVED"},
                  <<UACPI_PARSE_OP_BAD_OPCODE, UACPI_PARSE_OP_END>>)

\* the opcode table entry for a byte read from the stream: the characters
\* that can start a name string select the name-string op
OpSpecOfByte(b) ==
    IF b \in (65 .. 90) \cup {95, RootChar, ParentPrefixChar,
                             UACPI_DUAL_NAME_PREFIX, UACPI_MULTI_NAME_PREFIX}
    THEN uacpi_get_op_spec(UACPI_AML_OP_InternalOpNameString)
    ELSE IF b \in {UACPI_AML_OP_InternalOpNamedObject,
                   UACPI_AML_OP_InternalOpMethodCall0Args,
                   UACPI_AML_OP_InternalOpNameString}
         THEN uacpi_get_op_spec(UACPI_AML_OP_Reserved)
         ELSE uacpi_get_op_spec(b)


(***************************************************************************)
(* Objects (types.c): a table of reference counted objects.  An entry with *)
(* rc = 0 is free.  An object id of 0 is UACPI_NULL.                       *)
(***************************************************************************)
FreeObject ==
    [rc |-> 0, type |-> "UNINITIALIZED", integer |-> 0, buffer |-> <<>>,
     flags |-> "NONE", inner_object |-> 0, method |-> 0, package |-> <<>>,
     buffer_index |-> [idx |-> 0, buffer |-> 0],
     buffer_field |-> [backing |-> 0, bit_index |-> 0, bit_length |-> 0,
                       force_buffer |-> FALSE]]

ObjectIds == 1 .. MaxObjects

LiveObjects(heap) == {i \in ObjectIds : heap[i].rc > 0}

\* the allocator: the lowest free entry, 0 when none is left
AllocObjectId(heap) ==
    IF \A i \in ObjectIds : heap[i].rc > 0 THEN 0
    ELSE CHOOSE i \in ObjectIds :
            /\ heap[i].rc = 0
            /\ \A j \in 1 .. (i - 1) : heap[j].rc > 0

\* uacpi_create_object: a fresh object of the type with one reference
uacpi_create_object(heap, id, type) ==
    [heap EXCEPT ![id] = [FreeObject EXCEPT !.rc = 1, !.type = type]]

uacpi_object_ref(heap, id) ==
    IF id = 0 THEN heap ELSE [heap EXCEPT ![id].rc = @ + 1]

\* uacpi_object_unref: drop one reference; the last one frees the object
\* and, for a Reference, drops the reference it holds on its inner object
RECURSIVE uacpi_object_unref(_, _)
uacpi_object_unref(heap, id) ==
    IF id = 0 \/ heap[id].rc = 0 THEN heap
    ELSE IF heap[id].rc > 1 THEN [heap EXCEPT ![id].rc = @ - 1]
    ELSE LET freed == [heap EXCEPT ![id] = FreeObject]
         IN  IF heap[id].type = "REFERENCE"
             THEN uacpi_object_unref(freed, heap[id].inner_object)
             ELSE freed

\* uacpi_create_internal_reference: a Reference of the kind around child,
\* which gains a reference
uacpi_create_internal_reference(heap, id, kind, child) ==
    uacpi_object_ref(
        [heap EXCEPT ![id] = [FreeObject EXCEPT !.rc = 1, !.type = "REFERENCE",
                                                !.flags = kind,
                                                !.inner_object = child]],
        child)

\* uacpi_unwrap_internal_reference: follow Arg/Local/Named references down
\* to the first object that is not one
RECURSIVE uacpi_unwrap_internal_reference(_, _)
uacpi_unwrap_internal_reference(heap, id) ==
    IF heap[id].type # "REFERENCE" \/ heap[id].flags \in {"REFOF", "PKG_INDEX"}
    THEN id
    ELSE uacpi_unwrap_internal_reference(heap, heap[id].inner_object)

\* uacpi_object_assign with either copy behaviour, for the object kinds of
\* this model (an Integer is copied by value, a String or a Buffer of a deep
\* copy gets bytes of its own, a Reference shares its inner object): dst
\* drops what it held and takes src's type and payload
uacpi_object_assign(heap, dst, src) ==
    IF dst = src THEN heap
    ELSE LET dropped == IF heap[dst].type = "REFERENCE"
                        THEN uacpi_object_unref(heap, heap[dst].inner_object)
                        ELSE heap
             taken == IF heap[src].type = "REFERENCE"
                      THEN uacpi_object_ref(dropped, heap[src].inner_object)
                      ELSE dropped
         IN  [taken EXCEPT ![dst] = [heap[src] EXCEPT !.rc = heap[dst].rc]]

\* uacpi_object_detach_child followed by uacpi_object_attach_child
object_replace_child(heap, parent, new_child) ==
    LET detached == uacpi_object_unref(heap, heap[parent].inner_object)
    IN  uacpi_object_ref([detached EXCEPT ![parent].inner_object = new_child],
                         new_child)

\* reference_unwind: the last Reference of the chain starting at obj (the
\* parent of the first object that is not a Reference)
reference_unwind_one(heap, obj) == obj

RECURSIVE reference_unwind_from(_, _, _)
reference_unwind_from(heap, parent, obj) ==
    IF obj = 0 THEN 0
    ELSE IF heap[obj].type # "REFERENCE" THEN parent
    ELSE reference_unwind_from(heap, obj, heap[obj].inner_object)

reference_unwind(heap, obj) == reference_unwind_from(heap, obj, obj)

(***************************************************************************)
(* Namespace (namespace.c): a table of nodes.  Node 1 is the root.         *)
(***************************************************************************)
FreeNode ==
    [used |-> FALSE, name |-> <<>>, parent |-> 0, object |-> 0, installed |-> FALSE]

NodeIds == 1 .. MaxNodes

RootNode == 1

uacpi_namespace_root == RootNode

AllocNodeId(ns) ==
    IF \A n \in NodeIds : ns[n].used THEN 0
    ELSE CHOOSE n \in NodeIds :
            /\ ~ns[n].used
            /\ \A m \in 1 .. (n - 1) : ns[m].used

\* uacpi_namespace_node_find: the installed child of parent with the name
uacpi_namespace_node_find(ns, parent, name) ==
    LET hits == {n \in NodeIds : /\ ns[n].used
                                 /\ ns[n].installed
                                 /\ ns[n].parent = parent
                                 /\ ns[n].name = name}
    IN  IF hits = {} THEN 0 ELSE CHOOSE n \in hits : TRUE

\* uacpi_namespace_node_alloc: a node with the name, not linked anywhere
uacpi_namespace_node_alloc(ns, n, name) ==
    [ns EXCEPT ![n] = [FreeNode EXCEPT !.used = TRUE, !.name = name]]

\* uacpi_node_install: make the node visible under its parent
uacpi_node_install(ns, n) == [ns EXCEPT ![n].installed = TRUE]

\* uacpi_namespace_node_get_object: the object behind the node's Named
\* reference
uacpi_namespace_node_get_object(heap, ns, n) ==
    IF ns[n].object = 0 THEN 0
    ELSE uacpi_unwrap_internal_reference(heap, ns[n].object)

(***************************************************************************)
(* The machine state handled by the operators below is a record M with     *)
(* the fields of struct execution_context and of what it points to:        *)
(*   methods   the control methods (1: the one passed to execute,          *)
(*             2: the method behind the node MTH_)                         *)
(*   frames    call_stack, a sequence of struct call_frame                 *)
(*   cur_frame index of ctx->cur_frame in frames (0: UACPI_NULL)           *)
(*   heap, ns  the object table and the namespace                          *)
(*   ret       ctx->ret                                                    *)
(*   skip_else ctx->skip_else                                              *)
(*   cur_op    the code of the op spec ctx->cur_op points to               *)
(* and three fields that record what the last driver step did:            *)
(*   hev       the handler the step invoked (code 0: none) with the state  *)
(*             it was invoked in                                           *)
(*   clears    the call_frame_clear calls of the step, in order            *)
(*   uninstalled  the uacpi_node_uninstall calls of the step, in order     *)
(*   pops      the number of pop_op calls of the step                      *)
(* and kept, the nodes installed so far by methods whose named objects     *)
(* persist.                                                                *)
(* A frame carries, besides the fields of struct call_frame, a record of   *)
(* its past: returned (handle_return ran in it), installs (the nodes it    *)
(* installed, in order) and if_log (per block depth, the last If           *)
(* evaluated there: where its package ends and whether it was skipped).    *)
(* ctx->cur_op_ctx, ctx->prev_op_ctx and ctx->cur_block are always the     *)
(* values refresh_ctx_pointers computes from cur_frame, so they are        *)
(* operators of M rather than fields.                                      *)
(***************************************************************************)
NullItem ==
    [type |-> ITEM_NONE, obj |-> 0, node |-> 0, begin |-> 0, end |-> 0,
     immediate |-> 0]

\* the union member `handle` of struct item: the first bytes of whatever
\* the item holds
ItemHandle(item) ==
    CASE item.type \in {ITEM_OBJECT, ITEM_EMPTY_OBJECT} -> item.obj
      [] item.type \in {ITEM_NAMESPACE_NODE, ITEM_NAMESPACE_NODE_METHOD_LOCAL} -> item.node
      [] item.type = ITEM_PACKAGE_LENGTH -> item.begin + item.end
      [] OTHER -> item.immediate

NewOpContext(code) ==
    [pc |-> 0, preempted |-> FALSE, tracked_pkg_idx |-> 0, op |-> code,
     items |-> <<>>]

NewFrame ==
    [method |-> 0,
     args |-> [i \in 0 .. 6 |-> 0],
     locals |-> [i \in 0 .. 7 |-> 0],
     pending_ops |-> <<>>,
     code_blocks |-> <<>>,
     temp_nodes |-> <<>>,
     last_while |-> 0,
     cur_scope |-> 0,
     code_offset |-> 0,
     returned |-> FALSE,
     installs |-> <<>>,
     if_log |-> {}]

CurFrame(M) == M.frames[M.cur_frame]
FrameMethod(M, fr) == M.methods[fr.method]

\* refresh_ctx_pointers: the indices of cur_op_ctx, prev_op_ctx, cur_block
cur_op_ctx(M) == IF M.cur_frame = 0 THEN 0 ELSE Len(CurFrame(M).pending_ops)
prev_op_ctx(M) ==
    IF M.cur_frame = 0 \/ Len(CurFrame(M).pending_ops) < 2 THEN 0
    ELSE Len(CurFrame(M).pending_ops) - 1
cur_block(M) == IF M.cur_frame = 0 THEN 0 ELSE Len(CurFrame(M).code_blocks)

CurOpCtx(M) == CurFrame(M).pending_ops[cur_op_ctx(M)]
PrevOpCtx(M) == CurFrame(M).pending_ops[prev_op_ctx(M)]

PutFrame(M, fr) == [M EXCEPT !.frames[M.cur_frame] = fr]
PutOpCtx(M, oc) == [M EXCEPT !.frames[M.cur_frame].pending_ops[cur_op_ctx(M)] = oc]
PutItem(M, idx, it) ==
    [M EXCEPT !.frames[M.cur_frame].pending_ops[cur_op_ctx(M)].items[idx] = it]

PopSeq(s) == SubSeq(s, 1, Len(s) - 1)
Reverse(s) == [i \in 1 .. Len(s) |-> s[Len(s) + 1 - i]]

ctx_has_non_preempted_op(M) ==
    cur_op_ctx(M) # 0 /\ ~CurOpCtx(M).preempted

\* the byte of the method's code at a 0-based offset
AmlRead(method, offset) ==
    IF offset < Len(method.code) THEN method.code[offset + 1] ELSE 0

\* An unsigned difference a - b.  When b is the larger it wraps to a value
\* just below 2^32 (or 2^64), which is more than anything it is compared
\* with; the largest integer of TLC stands for it.
WrappedSize == 2147483647

SizeDiff(a, b) == IF a >= b THEN a - b ELSE WrappedSize

call_frame_code_bytes_left(M, fr) ==
    SizeDiff(FrameMethod(M, fr).size, fr.code_offset)

call_frame_has_code(M, fr) == call_frame_code_bytes_left(M, fr) > 0

\* op_decode_cursor/op_decode_byte: the byte of the parse program at pc
DecodeAt(oc, pc) ==
    LET ops == uacpi_get_op_spec(oc.op).decode_ops
    IN  IF pc < Len(ops) THEN ops[pc + 1] ELSE UACPI_PARSE_OP_END

(***************************************************************************)
(* parse_package_length: [ret, begin, end, code_offset]                    *)
(***************************************************************************)
parse_package_length(M, fr) ==
    LET method == FrameMethod(M, fr)
        begin == fr.code_offset
        left == call_frame_code_bytes_left(M, fr)
        lead == AmlRead(method, begin)
        marker_length == 1 + (lead \div 64)
        rest(k) == IF k < marker_length THEN AmlRead(method, begin + k) ELSE 0
        size == IF marker_length = 1
                THEN lead % 64
                ELSE ((lead % 16)
                      + 16 * (rest(1) + 256 * rest(2) + 65536 * rest(3)))
    IN  IF left < 1 \/ left < marker_length
        THEN [ret |-> "BAD_BYTECODE", begin |-> begin, end |-> 0,
              code_offset |-> fr.code_offset]
        ELSE [ret |-> "OK", begin |-> begin,
              end |-> begin + size,
              code_offset |-> fr.code_offset + marker_length]

(***************************************************************************)
(* parse_nameseg: four name characters                                     *)
(***************************************************************************)
parse_nameseg(method, cursor) ==
    \A i \in 0 .. 3 : AmlRead(method, cursor + i) \in NameChars

NameSegAt(method, cursor) == [i \in 1 .. 4 |-> AmlRead(method, cursor + i - 1)]

(***************************************************************************)
(* resolve_name_string: [ret, node, code_offset, ns, crashed].  behavior   *)
(* is "CREATE" (RESOLVE_CREATE_LAST_NAMESEG_FAIL_IF_EXISTS) or "FIND"      *)
(* (RESOLVE_FAIL_IF_DOESNT_EXIST).  On an early return the out node and    *)
(* code_offset are left alone.                                             *)
(***************************************************************************)
\* the prefix loop: [ret, cursor, cur_node, just_one]
RECURSIVE resolve_prefix(_, _, _, _, _, _)
resolve_prefix(method, cursor, cur_node, prev_char, just_one, ns) ==
    LET left == SizeDiff(method.size, cursor)
        c == AmlRead(method, cursor)
    IN  IF left = 0 THEN [ret |-> "BAD_BYTECODE", cursor |-> cursor,
                          cur_node |-> cur_node, just_one |-> just_one]
        ELSE IF c = RootChar
        THEN IF prev_char = ParentPrefixChar
             THEN [ret |-> "BAD_BYTECODE", cursor |-> cursor,
                   cur_node |-> cur_node, just_one |-> just_one]
             ELSE [ret |-> "OK", cursor |-> cursor + 1,
                   cur_node |-> uacpi_namespace_root, just_one |-> FALSE]
        ELSE IF c = ParentPrefixChar
        THEN IF cur_node = uacpi_namespace_root
             THEN [ret |-> "BAD_BYTECODE", cursor |-> cursor,
                   cur_node |-> cur_node, just_one |-> just_one]
             ELSE resolve_prefix(method, cursor + 1, ns[cur_node].parent, c,
                                 FALSE, ns)
        ELSE [ret |-> "OK", cursor |-> cursor, cur_node |-> cur_node,
              just_one |-> just_one]

\* the upward search of a single segment (lines 431-438)
upward_search_never(ns, cur_node, parent, name) == cur_node

RECURSIVE upward_search(_, _, _, _)
upward_search(ns, cur_node, parent, name) ==
    IF cur_node = 0 /\ parent # uacpi_namespace_root
    THEN upward_search(ns,
                       uacpi_namespace_node_find(ns, ns[parent].parent, name),
                       ns[parent].parent, name)
    ELSE cur_node

\* the segment loop: [ret, node, cursor, ns, namesegs]
RECURSIVE resolve_segments(_, _, _, _, _, _, _)
resolve_segments(method, behavior, cursor, namesegs, cur_node, just_one, ns) ==
    IF namesegs = 0
    THEN [ret |-> "OK", node |-> cur_node, cursor |-> cursor, ns |-> ns,
          namesegs |-> 0, crashed |-> FALSE]
    ELSE IF ~parse_nameseg(method, cursor)
    THEN [ret |-> "BAD_BYTECODE", node |-> 0, cursor |-> cursor, ns |-> ns,
          namesegs |-> namesegs, crashed |-> FALSE]
    ELSE
      LET name == NameSegAt(method, cursor)
          parent == cur_node
          found == uacpi_namespace_node_find(ns, parent, name)
      IN  IF behavior = "CREATE"
          THEN IF namesegs = 1
               THEN IF found # 0
                    THEN [ret |-> "ALREADY_EXISTS", node |-> 0, cursor |-> cursor,
                          ns |-> ns, namesegs |-> namesegs, crashed |-> FALSE]
                    ELSE LET n == AllocNodeId(ns)
                         IN  IF n = 0
                             THEN \* cur_node->parent on a failed allocation
                                  [ret |-> "OK", node |-> 0, cursor |-> cursor,
                                   ns |-> ns, namesegs |-> namesegs,
                                   crashed |-> TRUE]
                             ELSE [ret |-> "OK", node |-> n, cursor |-> cursor + 4,
                                   ns |-> [uacpi_namespace_node_alloc(ns, n, name)
                                             EXCEPT ![n].parent = parent],
                                   namesegs |-> 0, crashed |-> FALSE]
               ELSE IF found = 0
                    THEN [ret |-> "NOT_FOUND", node |-> 0, cursor |-> cursor,
                          ns |-> ns, namesegs |-> namesegs, crashed |-> FALSE]
                    ELSE resolve_segments(method, behavior, cursor + 4,
                                          namesegs - 1, found, just_one, ns)
          ELSE LET node == IF just_one
                           THEN upward_search(ns, found, parent, name)
                           ELSE found
               IN  IF node = 0
                   THEN [ret |-> "NOT_FOUND", node |-> 0, cursor |-> cursor,
                         ns |-> ns, namesegs |-> namesegs, crashed |-> FALSE]
                   ELSE resolve_segments(method, behavior, cursor + 4,
                                         namesegs - 1, node, just_one, ns)

\* case UACPI_NULL_NAME (lines 388-393)
null_name_rejected_on_create(behavior, just_one) == behavior = "CREATE"

null_name_rejected(behavior, just_one) == behavior = "CREATE" \/ just_one

\* the label out with the cursor left at the segment that was missed
out_cursor_at_miss(seg) == seg.cursor

\* the label out: cursor += namesegs * 4
out_cursor(seg) == seg.cursor + seg.namesegs * 4

resolve_name_string(M, fr, behavior) ==
    LET method == FrameMethod(M, fr)
        early(st) == [ret |-> st, node |-> 0, set_node |-> FALSE,
                      code_offset |-> fr.code_offset, ns |-> M.ns,
                      crashed |-> FALSE]
        out(st, node, cursor, ns, crashed) ==
            [ret |-> st, node |-> node, set_node |-> TRUE,
             code_offset |-> cursor, ns |-> ns, crashed |-> crashed]
        pre == resolve_prefix(method, fr.code_offset, fr.cur_scope, 0, TRUE, M.ns)
        left == SizeDiff(method.size, pre.cursor)
        lead == AmlRead(method, pre.cursor)
    IN  IF pre.ret # "OK" THEN early(pre.ret)
        ELSE IF left = 0 THEN early("BAD_BYTECODE")
        ELSE IF lead = UACPI_NULL_NAME
        THEN IF null_name_rejected(behavior, pre.just_one)
             THEN early("BAD_BYTECODE")
             ELSE out("OK", pre.cur_node, pre.cursor + 1, M.ns, FALSE)
        ELSE
          LET multi == lead = UACPI_MULTI_NAME_PREFIX
              dual == lead = UACPI_DUAL_NAME_PREFIX
              namesegs == IF dual THEN 2
                          ELSE IF multi THEN AmlRead(method, pre.cursor + 1)
                          ELSE 1
              cursor == IF dual THEN pre.cursor + 1
                        ELSE IF multi THEN pre.cursor + 2
                        ELSE pre.cursor
              bytes_left == SizeDiff(method.size, cursor)
              just_one == pre.just_one /\ ~dual /\ ~multi
              seg == resolve_segments(method, behavior, cursor, namesegs,
                                      pre.cur_node, just_one, M.ns)
          IN  IF multi /\ left - 1 = 0 THEN early("BAD_BYTECODE")
              ELSE IF namesegs * 4 > bytes_left THEN early("BAD_BYTECODE")
              ELSE IF seg.ret \in {"BAD_BYTECODE", "ALREADY_EXISTS"}
                   THEN early(seg.ret)
              ELSE out(seg.ret, seg.node, out_cursor(seg), seg.ns, seg.crashed)

(***************************************************************************)
(* Code blocks                                                             *)
(***************************************************************************)
\* find_last_block: index of the topmost block of the type, 0 if none
find_last_block(blocks, type) ==
    LET hits == {i \in 1 .. Len(blocks) : blocks[i].type = type}
    IN  IF hits = {} THEN 0 ELSE CHOOSE i \in hits : \A j \in hits : j <= i

update_scope(fr) ==
    LET b == find_last_block(fr.code_blocks, CODE_BLOCK_SCOPE)
    IN  [fr EXCEPT !.cur_scope = IF b = 0 THEN uacpi_namespace_root
                                 ELSE fr.code_blocks[b].node]

BlockTypeOfOp(code) ==
    CASE code = UACPI_AML_OP_IfOp -> CODE_BLOCK_IF
      [] code = UACPI_AML_OP_ElseOp -> CODE_BLOCK_ELSE
      [] code = UACPI_AML_OP_WhileOp -> CODE_BLOCK_WHILE
      [] code = UACPI_AML_OP_ScopeOp -> CODE_BLOCK_SCOPE
      [] OTHER -> 0

Handled(M, ret) == [M |-> M, ret |-> ret, crashed |-> FALSE]
Crashed(M) == [M |-> M, ret |-> "OK", crashed |-> TRUE]

begin_block_execution(M) ==
    LET fr == CurFrame(M)
        oc == CurOpCtx(M)
        type == BlockTypeOfOp(oc.op)
        pkg == oc.items[1]
        block == [type |-> type,
                  begin |-> SizeDiff(pkg.begin, 1),
                  end |-> pkg.end,
                  node |-> IF type = CODE_BLOCK_SCOPE THEN oc.items[2].node ELSE 0]
        pushed == [fr EXCEPT !.code_blocks = Append(@, block)]
        whiled == [pushed EXCEPT !.last_while =
                        find_last_block(pushed.code_blocks, CODE_BLOCK_WHILE)]
    IN  IF type = 0 THEN Handled(M, "INVALID_ARGUMENT")
        ELSE Handled(PutFrame(M, update_scope(whiled)), "OK")

\* frame_reset_post_end_block, on the frame
\* frame_reset_post_end_block that leaves cur_scope as it is
ResetPostEndBlock_keeps_scope(fr, type) ==
    LET popped == [fr EXCEPT !.code_blocks = PopSeq(@)]
    IN  IF type = CODE_BLOCK_WHILE
        THEN [popped EXCEPT !.last_while =
                  find_last_block(popped.code_blocks, CODE_BLOCK_WHILE)]
        ELSE popped

ResetPostEndBlock(fr, type) ==
    LET popped == [fr EXCEPT !.code_blocks = PopSeq(@)]
    IN  IF type = CODE_BLOCK_WHILE
        THEN [popped EXCEPT !.last_while =
                  find_last_block(popped.code_blocks, CODE_BLOCK_WHILE)]
        ELSE IF type = CODE_BLOCK_SCOPE THEN update_scope(popped)
        ELSE popped

frame_reset_post_end_block(M, type) ==
    PutFrame(M, ResetPostEndBlock(CurFrame(M), type))

\* maybe_end_block without the skip_else of an If that ran to its end
maybe_end_block_no_skip_else(M) ==
    LET fr == CurFrame(M)
        b == cur_block(M)
        block == fr.code_blocks[b]
        moved == IF block.type = CODE_BLOCK_WHILE
                 THEN [fr EXCEPT !.code_offset = block.begin]
                 ELSE fr
    IN  IF b = 0 THEN [ended |-> FALSE, M |-> M]
        ELSE IF fr.code_offset # block.end THEN [ended |-> FALSE, M |-> M]
        ELSE [ended |-> TRUE,
              M |-> frame_reset_post_end_block(PutFrame(M, moved), block.type)]

\* maybe_end_block without the move back to the While opcode
maybe_end_block_no_rewind(M) ==
    LET fr == CurFrame(M)
        b == cur_block(M)
        block == fr.code_blocks[b]
    IN  IF b = 0 THEN [ended |-> FALSE, M |-> M]
        ELSE IF fr.code_offset # block.end THEN [ended |-> FALSE, M |-> M]
        ELSE [ended |-> TRUE,
              M |-> frame_reset_post_end_block(
                        [M EXCEPT !.skip_else = (block.type = CODE_BLOCK_IF)],
                        block.type)]

\* maybe_end_block: [ended, M]
maybe_end_block(M) ==
    LET fr == CurFrame(M)
        b == cur_block(M)
        block == fr.code_blocks[b]
        moved == IF block.type = CODE_BLOCK_WHILE
                 THEN [fr EXCEPT !.code_offset = block.begin]
                 ELSE fr
    IN  IF b = 0 THEN [ended |-> FALSE, M |-> M]
        ELSE IF fr.code_offset # block.end THEN [ended |-> FALSE, M |-> M]
        ELSE [ended |-> TRUE,
              M |-> frame_reset_post_end_block(
                        [PutFrame(M, moved) EXCEPT
                            !.skip_else = (block.type = CODE_BLOCK_IF)],
                        block.type)]

\* handle_control_flow: Break and Continue.  With no While block on the
\* stack the loop pops every block and then reads ctx->cur_block, which is
\* UACPI_NULL.
RECURSIVE control_flow_loop(_, _)
control_flow_loop(fr, code) ==
    LET b == Len(fr.code_blocks)
    IN  IF b # fr.last_while
        THEN control_flow_loop(ResetPostEndBlock(fr, fr.code_blocks[b].type), code)
        ELSE IF b = 0 THEN [fr |-> fr, crashed |-> TRUE]
        ELSE [fr |-> ResetPostEndBlock(
                        [fr EXCEPT !.code_offset =
                            IF code = UACPI_AML_OP_BreakOp
                            THEN fr.code_blocks[b].end
                            ELSE fr.code_blocks[b].begin],
                        fr.code_blocks[b].type),
              crashed |-> FALSE]

\* handle_control_flow with the targets of Break and Continue exchanged
handle_control_flow_swapped(M) ==
    LET r == control_flow_loop(CurFrame(M),
                               IF CurOpCtx(M).op = UACPI_AML_OP_BreakOp
                               THEN UACPI_AML_OP_ContinueOp
                               ELSE UACPI_AML_OP_BreakOp)
    IN  IF r.crashed THEN Crashed(PutFrame(M, r.fr))
        ELSE Handled(PutFrame(M, r.fr), "OK")

handle_control_flow(M) ==
    LET r == control_flow_loop(CurFrame(M), CurOpCtx(M).op)
    IN  IF r.crashed THEN Crashed(PutFrame(M, r.fr))
        ELSE Handled(PutFrame(M, r.fr), "OK")

handle_code_block(M) ==
    LET oc == CurOpCtx(M)
        pkg == oc.items[1]
        skip_block ==
            CASE oc.op = UACPI_AML_OP_ElseOp -> M.skip_else
              [] oc.op = UACPI_AML_OP_ScopeOp -> FALSE
              [] OTHER -> M.heap[oc.items[2].obj].integer = 0
    IN  IF BlockTypeOfOp(oc.op) = 0 THEN Handled(M, "INVALID_ARGUMENT")
        ELSE IF skip_block
        THEN Handled([M EXCEPT !.frames[M.cur_frame].code_offset = pkg.end], "OK")
        ELSE begin_block_execution(M)

(***************************************************************************)
(* Return                                                                  *)
(***************************************************************************)
\* method_get_ret_target: [ret, obj]
method_get_ret_target(M) ==
    LET depth == Len(M.frames)
        ops == M.frames[depth - 1].pending_ops
        items == ops[Len(ops)].items
    IN  IF depth > 1
        THEN IF Len(ops) = 0 THEN [ret |-> "OK", obj |-> 0]
             ELSE [ret |-> "OK", obj |-> items[Len(items)].obj]
        ELSE [ret |-> "NOT_FOUND", obj |-> 0]

method_get_ret_object(M) ==
    LET t == method_get_ret_target(M)
    IN  IF t.ret = "NOT_FOUND" THEN [ret |-> "OK", obj |-> M.ret]
        ELSE IF t.ret # "OK" \/ t.obj = 0 THEN t
        ELSE [ret |-> "OK", obj |-> uacpi_unwrap_internal_reference(M.heap, t.obj)]

handle_return(M) ==
    LET fr == CurFrame(M)
        moved == PutFrame(M, [fr EXCEPT !.code_offset = FrameMethod(M, fr).size])
        dst == method_get_ret_object(moved)
    IN  IF dst.ret # "OK" THEN Handled(moved, dst.ret)
        ELSE IF dst.obj = 0 THEN Handled(moved, "OK")
        ELSE Handled([moved EXCEPT !.heap =
                         uacpi_object_assign(@, dst.obj, CurOpCtx(M).items[1].obj)],
                     "OK")

(***************************************************************************)
(* Locals, args and named objects                                          *)
(***************************************************************************)
\* handle_arg_or_local: type is "ARG" or "LOCAL"
handle_arg_or_local(M, idx, type) ==
    LET fr == CurFrame(M)
        src == IF type = "ARG" THEN fr.args[idx] ELSE fr.locals[idx]
        default_value == AllocObjectId(M.heap)
        h1 == uacpi_create_object(M.heap, default_value, "UNINITIALIZED")
        ref == AllocObjectId(h1)
        h2 == uacpi_object_unref(
                  uacpi_create_internal_reference(h1, ref, type, default_value),
                  default_value)
        slot == IF src = 0 THEN ref ELSE src
        heap == IF src = 0 THEN h2 ELSE M.heap
        stored == IF type = "ARG" THEN [fr EXCEPT !.args[idx] = slot]
                  ELSE [fr EXCEPT !.locals[idx] = slot]
        last == Len(CurOpCtx(M).items)
    IN  IF src = 0 /\ default_value = 0 THEN Handled(M, "OUT_OF_MEMORY")
        ELSE IF src = 0 /\ ref = 0
        THEN Handled([M EXCEPT !.heap = h1], "OUT_OF_MEMORY")
        ELSE Handled(
               PutItem([PutFrame(M, stored) EXCEPT
                           !.heap = uacpi_object_ref(heap, slot)],
                       last,
                       [CurOpCtx(M).items[last] EXCEPT !.obj = slot,
                                                      !.type = ITEM_OBJECT]),
               "OK")

handle_local(M) ==
    handle_arg_or_local(M, CurOpCtx(M).op - UACPI_AML_OP_Local0Op, "LOCAL")

handle_arg(M) ==
    handle_arg_or_local(M, CurOpCtx(M).op - UACPI_AML_OP_Arg0Op, "ARG")

handle_named_object(M) ==
    LET src == CurOpCtx(M).items[1].node
        obj == M.ns[src].object
    IN  Handled(PutItem([M EXCEPT !.heap = uacpi_object_ref(@, obj)], 2,
                        [CurOpCtx(M).items[2] EXCEPT !.obj = obj,
                                                    !.type = ITEM_OBJECT]),
                "OK")

handle_create_named(M) ==
    LET node == CurOpCtx(M).items[1].node
        src == CurOpCtx(M).items[2].obj
        ref == AllocObjectId(M.heap)
    IN  IF ref = 0 THEN Handled(M, "OUT_OF_MEMORY")
        ELSE Handled([M EXCEPT
                        !.heap = uacpi_create_internal_reference(@, ref, "NAMED", src),
                        !.ns[node].object = ref],
                     "OK")

(***************************************************************************)
(* Store                                                                   *)
(***************************************************************************)
\* sizeof_int, of a table that is not of revision 1, and of one that is
sizeof_int == 8

sizeof_int_rev1 == 4

\* the integer as sizeof_int little-endian bytes, and back
RECURSIVE IntegerBytes(_, _)
IntegerBytes(v, n) ==
    IF n = 0 THEN <<>> ELSE <<v % 256>> \o IntegerBytes(v \div 256, n - 1)

RECURSIVE BytesInteger(_)
BytesInteger(b) ==
    IF b = <<>> THEN 0 ELSE Head(b) + 256 * BytesInteger(Tail(b))

\* get_object_storage: [ret, bytes], the bytes of the object's storage.  The
\* buffer of a String holds its text and the terminating null.
get_object_storage_at(obj, include_null, is_rev1) ==
    CASE obj.type = "INTEGER" ->
            [ret |-> "OK",
             bytes |-> SubSeq(obj.integer, 1,
                              IF is_rev1 THEN sizeof_int_rev1 ELSE sizeof_int)]
      [] obj.type = "STRING" ->
            LET size == Len(obj.buffer)
                len == IF size # 0 /\ ~include_null THEN size - 1 ELSE size
            IN  [ret |-> "OK", bytes |-> SubSeq(obj.buffer, 1, len)]
      [] obj.type = "BUFFER" ->
            [ret |-> "OK", bytes |-> obj.buffer]
      [] obj.type = "REFERENCE" ->
            [ret |-> "INVALID_ARGUMENT", bytes |-> <<>>]
      [] OTHER -> [ret |-> "BAD_BYTECODE", bytes |-> <<>>]

\* get_object_storage of an object of the heap, in a table that is not of
\* revision 1
get_object_storage(heap, obj, include_null) ==
    get_object_storage_at(
        [type |-> heap[obj].type, buffer |-> heap[obj].buffer,
         integer |-> IntegerBytes(heap[obj].integer, 8)],
        include_null, FALSE)

\* uacpi_memcpy_zerout: the bytes of dst after the copy of at most Len(dst)
\* bytes of src, the rest of dst zeroed
uacpi_memcpy_keeps_rest(dst, src) ==
    [i \in 1 .. Len(dst) |-> IF i <= Len(src) THEN src[i] ELSE dst[i]]

uacpi_memcpy_zerout(dst, src) ==
    [i \in 1 .. Len(dst) |-> IF i <= Len(src) THEN src[i] ELSE 0]

\* the object whose storage holds the bytes
WithStorage(o, bytes) ==
    CASE o.type = "INTEGER" -> [o EXCEPT !.integer = BytesInteger(bytes)]
      [] o.type = "STRING" ->
            [o EXCEPT !.buffer = bytes \o SubSeq(@, Len(bytes) + 1, Len(@))]
      [] OTHER -> [o EXCEPT !.buffer = bytes]

\* write_buffer_index: the heap after the byte at idx of the buffer took the
\* first byte of the source.  The uacpi_buffer a BufferIndex points into is
\* the storage of the Buffer object buffer_index.buffer.
write_buffer_index(heap, buf_idx, src_bytes) ==
    [heap EXCEPT ![buf_idx.buffer].buffer[buf_idx.idx + 1] =
                     uacpi_memcpy_zerout(<<@>>, src_bytes)[1]]

(***************************************************************************)
(* Buffer fields.  The bytes are numbers below 256, data[i + 1] is the     *)
(* byte at data + i, and C's operators on them are computed on the bits.   *)
(***************************************************************************)
RECURSIVE BitAnd(_, _)
BitAnd(a, b) ==
    IF a = 0 \/ b = 0 THEN 0
    ELSE (a % 2) * (b % 2) + 2 * BitAnd(a \div 2, b \div 2)

BitOr(a, b) == a + b - BitAnd(a, b)

\* a & ~mask
BitClear(a, mask) == a - BitAnd(a, mask)

\* buffer_field_byte_size: bit_length aligned up to 8, in bytes
buffer_field_byte_size(field) == (field.bit_length + 7) \div 8

\* the bits of one round of do_rw_misaligned_buffer_field, an uacpi_u8
span_bits(src_data, src_ptr, src_count, src_shift) ==
    IF src_count = 0 THEN 0
    ELSE LET low == src_data[src_ptr] \div 2^src_shift
             both == IF src_shift # 0 /\ src_count > 8 - src_shift
                     THEN BitOr(low, src_data[src_ptr + 1] * 2^(8 - src_shift))
                          % 256
                     ELSE low
         IN  IF src_count < 8 THEN both % 2^src_count ELSE both

\* the destination after one round put the bits under dst_mask
span_put(dst_data, dst_ptr, dst_count, dst_shift, bits, dst_mask) ==
    LET first == [dst_data EXCEPT
                     ![dst_ptr] = BitOr(BitClear(@, dst_mask),
                                        BitAnd(bits * 2^dst_shift, dst_mask))
                                  % 256]
    IN  IF dst_shift # 0 /\ dst_count > 8 - dst_shift
        THEN [first EXCEPT
                 ![dst_ptr + 1] =
                     BitOr(BitClear(@, dst_mask \div 256),
                           BitAnd(bits \div 2^(8 - dst_shift),
                                  dst_mask \div 256))]
        ELSE first

\* do_rw_misaligned_buffer_field from its while loop on: the data of dst
RECURSIVE span_loop(_, _, _, _, _, _, _, _)
span_loop(dst_data, dst_ptr, dst_count, dst_shift, src_data, src_ptr, src_count, src_shift) ==
    IF dst_count = 0 THEN dst_data
    ELSE span_loop(
             span_put(dst_data, dst_ptr, dst_count, dst_shift,
                      span_bits(src_data, src_ptr, src_count, src_shift),
                      ((IF dst_count < 8 THEN 2^dst_count - 1 ELSE 255)
                       * 2^dst_shift) % 65536),
             dst_ptr + 1,
             IF dst_count > 8 THEN dst_count - 8 ELSE 0,
             dst_shift,
             src_data,
             IF src_count >= 8 THEN src_ptr + 1 ELSE src_ptr,
             IF src_count >= 8 THEN src_count - 8 ELSE 0,
             src_shift)

\* do_rw_misaligned_buffer_field(dst, src) of two bit spans [data, index,
\* length]: the data of dst
do_rw_misaligned_buffer_field(dst, src) ==
    span_loop(dst.data, dst.index \div 8 + 1, dst.length, dst.index % 8,
              src.data, src.index \div 8 + 1, src.length, src.index % 8)

do_write_misaligned_buffer_field_bytewise(data, field, src_bytes) ==
    do_rw_misaligned_buffer_field(
        [data |-> data, index |-> 8 * (field.bit_index \div 8),
         length |-> field.bit_length],
        [data |-> src_bytes, index |-> 0, length |-> Len(src_bytes) * 8])

do_write_misaligned_buffer_field(data, field, src_bytes) ==
    do_rw_misaligned_buffer_field(
        [data |-> data, index |-> field.bit_index, length |-> field.bit_length],
        [data |-> src_bytes, index |-> 0, length |-> Len(src_bytes) * 8])

\* the final byte of an aligned write: the byte of the source, and the bits
\* of last_byte from tail_shift up
tail_kept(byte, last_byte, tail_shift) ==
    IF tail_shift = 0 THEN byte
    ELSE BitOr(byte, (last_byte \div 2^tail_shift) * 2^tail_shift)

\* write_buffer_field: the data of the backing buffer after the write
write_buffer_field(data, field, src_bytes) ==
    IF field.bit_index % 8 = 0
    THEN LET dst == field.bit_index \div 8
             count == buffer_field_byte_size(field)
             copied == uacpi_memcpy_zerout(SubSeq(data, dst + 1, dst + count),
                                           src_bytes)
         IN  [i \in 1 .. Len(data) |->
                 CASE i = dst + count ->
                         tail_kept(copied[count], data[dst + count],
                                   field.bit_length % 8)
                   [] i > dst /\ i < dst + count -> copied[i - dst]
                   [] OTHER -> data[i]]
    ELSE do_write_misaligned_buffer_field(data, field, src_bytes)

\* do_misaligned_buffer_read: the buffer_field_byte_size bytes of dst, which
\* is zeroed memory
do_misaligned_buffer_read(data, field) ==
    do_rw_misaligned_buffer_field(
        [data |-> [i \in 1 .. buffer_field_byte_size(field) |-> 0],
         index |-> 0, length |-> buffer_field_byte_size(field) * 8],
        [data |-> data, index |-> field.bit_index, length |-> field.bit_length])

\* do_read_buffer_field: the buffer_field_byte_size bytes read
do_read_buffer_field_unmasked(data, field) ==
    IF field.bit_index % 8 = 0
    THEN SubSeq(data, field.bit_index \div 8 + 1,
                field.bit_index \div 8 + buffer_field_byte_size(field))
    ELSE do_misaligned_buffer_read(data, field)

do_read_buffer_field(data, field) ==
    IF field.bit_index % 8 = 0
    THEN LET src == field.bit_index \div 8
             count == buffer_field_byte_size(field)
         IN  [i \in 1 .. count |->
                 IF i = count /\ field.bit_length % 8 # 0
                 THEN data[src + i] % 2^(field.bit_length % 8)
                 ELSE data[src + i]]
    ELSE do_misaligned_buffer_read(data, field)

(***************************************************************************)
(* 64-bit unsigned integers that do not fit the checker's integers are     *)
(* sequences of eight bytes, lowest byte first, and + and * wrap.          *)
(***************************************************************************)
RECURSIVE AddBytes(_, _, _)
AddBytes(a, b, carry) ==
    IF a = <<>> THEN <<>>
    ELSE <<(Head(a) + Head(b) + carry) % 256>>
         \o AddBytes(Tail(a), Tail(b), (Head(a) + Head(b) + carry) \div 256)

Add64(a, b) == AddBytes(a, b, 0)

Times8(a) == Add64(Add64(Add64(a, a), Add64(a, a)), Add64(Add64(a, a), Add64(a, a)))

RECURSIVE GreaterBytes(_, _)
GreaterBytes(a, b) ==
    IF a = <<>> THEN FALSE
    ELSE IF a[Len(a)] # b[Len(b)] THEN a[Len(a)] > b[Len(b)]
    ELSE GreaterBytes(SubSeq(a, 1, Len(a) - 1), SubSeq(b, 1, Len(b) - 1))

\* the largest declared size of a buffer or a package, 0xE0000000
SizeLimit == <<0, 0, 0, 224, 0, 0, 0, 0>>

\* handle_buffer with more initializers than the declared size cut to the
\* size instead of refused
handle_buffer_truncating(heap, code, pkg_end, aml_offset, declared_size, dst) ==
    IF pkg_end > Len(code) THEN [heap |-> heap, ret |-> "BAD_BYTECODE"]
    ELSE IF GreaterBytes(declared_size, SizeLimit)
    THEN [heap |-> heap, ret |-> "BAD_BYTECODE"]
    ELSE IF declared_size = IntegerBytes(0, 8)
    THEN [heap |-> heap, ret |-> "BAD_BYTECODE"]
    ELSE [heap |-> [heap EXCEPT ![dst].buffer =
                        uacpi_memcpy_zerout(
                            [i \in 1 .. BytesInteger(declared_size) |-> 0],
                            SubSeq(code, aml_offset + 1, pkg_end))],
          ret |-> "OK"]

\* handle_buffer: [heap, ret]; code is the method's code, the initializers
\* are its bytes from aml_offset up to pkg_end, declared_size the 64-bit
\* integer of the size operand and dst the Buffer object under construction
handle_buffer(heap, code, pkg_end, aml_offset, declared_size, dst) ==
    IF pkg_end > Len(code) THEN [heap |-> heap, ret |-> "BAD_BYTECODE"]
    ELSE IF GreaterBytes(declared_size, SizeLimit)
    THEN [heap |-> heap, ret |-> "BAD_BYTECODE"]
    ELSE IF declared_size = IntegerBytes(0, 8)
    THEN [heap |-> heap, ret |-> "BAD_BYTECODE"]
    ELSE IF pkg_end - aml_offset > BytesInteger(declared_size)
    THEN [heap |-> heap, ret |-> "BAD_BYTECODE"]
    ELSE [heap |-> [heap EXCEPT ![dst].buffer =
                        uacpi_memcpy_zerout(
                            [i \in 1 .. BytesInteger(declared_size) |-> 0],
                            SubSeq(code, aml_offset + 1, pkg_end))],
          ret |-> "OK"]

\* DerefOf taking the object one level below the operand, not the
\* bottom-most one
handle_ref_or_deref_of_one_level(heap, code, src0, dst) ==
    IF code # UACPI_AML_OP_DerefOfOp
    THEN [heap |-> uacpi_object_ref(
                       [heap EXCEPT ![dst].type = "REFERENCE",
                                    ![dst].inner_object = src0], src0),
          ret |-> "OK"]
    ELSE IF heap[src0].type # "REFERENCE"
    THEN [heap |-> heap, ret |-> "BAD_BYTECODE"]
    ELSE [heap |-> uacpi_object_assign(heap, dst, heap[src0].inner_object),
          ret |-> "OK"]

\* handle_ref_or_deref_of: [heap, ret]; src is the operand and dst the
\* object of the result.  DerefOf takes the bottom-most object that is not
\* a Reference, and the byte of a BufferIndex as an Integer
handle_ref_or_deref_of(heap, code, src0, dst) ==
    LET was_a_reference == heap[src0].type = "REFERENCE"
        src == IF was_a_reference
               THEN heap[reference_unwind(heap, src0)].inner_object
               ELSE src0
    IN  IF code # UACPI_AML_OP_DerefOfOp
        THEN [heap |-> uacpi_object_ref(
                           [heap EXCEPT ![dst].type = "REFERENCE",
                                        ![dst].inner_object = src0], src0),
              ret |-> "OK"]
        ELSE IF heap[src].type = "BUFFER_INDEX"
        THEN [heap |-> [heap EXCEPT
                  ![dst].type = "INTEGER",
                  ![dst].integer =
                      heap[heap[src].buffer_index.buffer].buffer[
                          heap[src].buffer_index.idx + 1]],
              ret |-> "OK"]
        ELSE IF ~was_a_reference
        THEN [heap |-> heap, ret |-> "BAD_BYTECODE"]
        ELSE [heap |-> uacpi_object_assign(heap, dst, src), ret |-> "OK"]

ensure_valid_idx(idx, src_size) ==
    IF idx < src_size THEN "OK" ELSE "BAD_BYTECODE"

\* handle_index of a Package wrapping the slot in a new PkgIndex Reference
\* at every Index
handle_index_relifting(heap, src, idx) ==
    LET ref == AllocObjectId(heap)
        old == heap[src].package[idx + 1]
        lifted == uacpi_object_unref(
                      [uacpi_create_internal_reference(heap, ref,
                                                       "PKG_INDEX", old)
                           EXCEPT ![src].package[idx + 1] = ref],
                      old)
    IN  IF ensure_valid_idx(idx, Len(heap[src].package)) # "OK"
        THEN [heap |-> heap, ret |-> "BAD_BYTECODE", obj |-> 0]
        ELSE [heap |-> uacpi_object_ref(lifted, ref), ret |-> "OK",
              obj |-> ref]

\* handle_index: [heap, ret, obj]; src is the indexed object, idx the index
\* and obj the object of the result: a BufferIndex into a Buffer or a
\* String, or the PkgIndex Reference that the slot of a Package is turned
\* into at its first Index
handle_index(heap, src, idx) ==
    LET ref == AllocObjectId(heap)
        bad == [heap |-> heap, ret |-> "BAD_BYTECODE", obj |-> 0]
    IN  CASE heap[src].type \in {"BUFFER", "STRING"} ->
                IF ensure_valid_idx(
                       idx, Len(get_object_storage(heap, src, FALSE).bytes))
                   # "OK"
                THEN bad
                ELSE [heap |-> uacpi_object_ref(
                                   [uacpi_create_object(heap, ref,
                                                        "BUFFER_INDEX")
                                        EXCEPT ![ref].buffer_index =
                                            [idx |-> idx, buffer |-> src]],
                                   src),
                      ret |-> "OK", obj |-> ref]
          [] heap[src].type = "PACKAGE" ->
                IF ensure_valid_idx(idx, Len(heap[src].package)) # "OK"
                THEN bad
                ELSE LET old == heap[src].package[idx + 1]
                         lifted == uacpi_object_unref(
                             [uacpi_create_internal_reference(
                                  heap, ref, "PKG_INDEX", old)
                                  EXCEPT ![src].package[idx + 1] = ref],
                             old)
                     IN  IF heap[old].type # "REFERENCE"
                            \/ heap[old].flags # "PKG_INDEX"
                         THEN [heap |-> uacpi_object_ref(lifted, ref),
                               ret |-> "OK", obj |-> ref]
                         ELSE [heap |-> uacpi_object_ref(heap, old),
                               ret |-> "OK", obj |-> old]
          [] OTHER -> bad

\* object_to_integer taking no more bytes of a Buffer than an Integer of
\* revision 1 has
object_to_integer_of_four(obj, max_buffer_bytes) ==
    CASE obj.type = "INTEGER" -> obj.integer
      [] obj.type = "BUFFER" ->
            uacpi_memcpy_zerout(
                IntegerBytes(0, 8),
                SubSeq(obj.buffer, 1,
                       IF Len(obj.buffer) < sizeof_int_rev1
                       THEN Len(obj.buffer) ELSE sizeof_int_rev1))
      [] obj.type # "STRING" -> IntegerBytes(0, 8)

\* object_to_integer: the 64-bit integer, as its eight bytes, of an Integer
\* or of the first max_buffer_bytes bytes of a Buffer.  (A String goes
\* through uacpi_strtoull, which is left out.)
object_to_integer(obj, max_buffer_bytes) ==
    CASE obj.type = "INTEGER" -> obj.integer
      [] obj.type = "BUFFER" ->
            uacpi_memcpy_zerout(
                IntegerBytes(0, 8),
                SubSeq(obj.buffer, 1,
                       IF Len(obj.buffer) < max_buffer_bytes
                       THEN Len(obj.buffer) ELSE max_buffer_bytes))
      [] obj.type # "STRING" -> IntegerBytes(0, 8)

\* handle_to of ToInteger and ToBuffer: [ret, obj], obj the value of the
\* result; the value of an Integer is its eight bytes.  (ToHexString and
\* ToDecimalString are left out.)
handle_to(code, src, is_rev1) ==
    CASE code = UACPI_AML_OP_ToIntegerOp ->
            [ret |-> "OK",
             obj |-> [type |-> "INTEGER", buffer |-> <<>>,
                      integer |-> object_to_integer(src, 8)]]
      [] code = UACPI_AML_OP_ToBufferOp ->
            LET buf == get_object_storage_at(src, TRUE, is_rev1)
            IN  [ret |-> buf.ret,
                 obj |-> [type |-> "BUFFER", buffer |-> buf.bytes,
                          integer |-> IntegerBytes(0, 8)]]
      [] code \notin {UACPI_AML_OP_ToHexStringOp,
                      UACPI_AML_OP_ToDecimalStringOp} ->
            [ret |-> "INVALID_ARGUMENT", obj |-> src]

\* do_binary_math of Divide and Mod: the heap with the targets set.  With
\* rhs = 0 Divide sets the quotient to 0 and then falls through to
\* 'lhs % rhs', which is undefined: by_zero is what that expression yields
\* in a build where it does not trap.  (The other ops are left out.)
do_binary_math(heap, arg0, arg1, tgt0, tgt1, op, by_zero) ==
    LET lhs == heap[arg0].integer
        rhs == heap[arg1].integer
        divided == IF op = UACPI_AML_OP_DivideOp
                   THEN [heap EXCEPT ![tgt1].integer =
                            IF rhs > 0 THEN lhs \div rhs ELSE 0]
                   ELSE heap
    IN  CASE op \in {UACPI_AML_OP_DivideOp, UACPI_AML_OP_ModOp} ->
            [divided EXCEPT ![tgt0].integer =
                IF rhs = 0 THEN by_zero ELSE lhs % rhs]

\* handle_binary_math: items are the objects of the op's items, the targets
\* of Divide the items 4 and 5 and the target of the others item 3
handle_binary_math(heap, items, op, by_zero) ==
    IF op = UACPI_AML_OP_DivideOp
    THEN do_binary_math(heap, items[1], items[2], items[5], items[6], op,
                        by_zero)
    ELSE do_binary_math(heap, items[1], items[2], items[4], 0, op, by_zero)

\* name_string_to_path: the prefix bytes of the name string at the offset,
\* any number of '^' and then at most one '\', or -1 when the code ends
\* inside them
RECURSIVE path_prefix_bytes(_, _)
path_prefix_bytes(code, cursor) ==
    IF cursor >= Len(code) THEN 0 - 1
    ELSE IF code[cursor + 1] = ParentPrefixChar
    THEN IF path_prefix_bytes(code, cursor + 1) < 0 THEN 0 - 1
         ELSE path_prefix_bytes(code, cursor + 1) + 1
    ELSE IF code[cursor + 1] = RootChar THEN 1
    ELSE 0

\* the name segments from the cursor on, a dot after each but the last
RECURSIVE path_namesegs(_, _, _)
path_namesegs(code, cursor, namesegs) ==
    IF namesegs = 0 THEN <<>>
    ELSE SubSeq(code, cursor + 1, cursor + 4)
         \o (IF namesegs > 1 THEN <<46>> ELSE <<>>)
         \o path_namesegs(code, cursor + 4, namesegs - 1)

\* name_string_to_path: [ret, size, written]; size is the size allocated
\* for the path and returned as its length, written the bytes stored from
\* the start of the allocation on, the terminator last.  For a name of no
\* segments 'nameseg_bytes += namesegs - 1' wraps, and the size comes out
\* as the prefix bytes alone, one less than the bytes written
name_string_to_path(code, offset) ==
    LET prefix_bytes == path_prefix_bytes(code, offset)
        cursor == offset + prefix_bytes
        lead == code[cursor + 1]
        namesegs == CASE lead = UACPI_DUAL_NAME_PREFIX -> 2
                      [] lead = UACPI_MULTI_NAME_PREFIX -> code[cursor + 2]
                      [] lead = UACPI_NULL_NAME -> 0
                      [] OTHER -> 1
        segs_at == CASE lead = UACPI_MULTI_NAME_PREFIX -> cursor + 2
                     [] lead \in {UACPI_DUAL_NAME_PREFIX, UACPI_NULL_NAME}
                            -> cursor + 1
                     [] OTHER -> cursor
        bad == [ret |-> "BAD_BYTECODE", size |-> 0, written |-> <<>>]
    IN  IF prefix_bytes < 0 THEN bad
        ELSE IF Len(code) - cursor = 0 THEN bad
        ELSE IF lead = UACPI_MULTI_NAME_PREFIX /\ Len(code) - cursor = 1
        THEN bad
        ELSE IF namesegs * 4 > Len(code) - segs_at THEN bad
        ELSE [ret |-> "OK",
              size |-> namesegs * 4 + (namesegs - 1) + prefix_bytes + 1,
              written |-> SubSeq(code, offset + 1, offset + prefix_bytes)
                          \o path_namesegs(code, segs_at, namesegs)
                          \o <<0>>]

\* uacpi_package_fill: the package gets num_elements slots, each a fresh
\* Uninitialized object
RECURSIVE uacpi_package_fill(_, _, _)
uacpi_package_fill(heap, pkg, num_elements) ==
    IF num_elements = 0 THEN heap
    ELSE LET id == AllocObjectId(heap)
         IN  uacpi_package_fill(
                 [uacpi_create_object(heap, id, "UNINITIALIZED")
                      EXCEPT ![pkg].package = Append(@, id)],
                 pkg, num_elements - 1)

\* the elements of handle_package from the i-th on: [heap, items, ret,
\* overrun]; items are the pairs of the offset of an element in the code
\* and its object, overrun tells that a path was written past its
\* allocation
RECURSIVE package_elements(_, _, _, _, _, _, _)
\* the slot takes the copy of the path String made for the element
package_path_element(heap, code, items, pkg, i, n, overrun) ==
    package_elements(
        uacpi_object_assign(heap, heap[pkg].package[i], items[i].obj),
        code, items, pkg, i + 1, n, overrun)

package_elements(heap, code, items, pkg, i, num_defined_elements, overrun) ==
    IF i > num_defined_elements
    THEN [heap |-> heap, items |-> items, ret |-> "OK", overrun |-> overrun]
    ELSE LET named == /\ items[i].obj # 0
                      /\ heap[items[i].obj].type = "REFERENCE"
                      /\ heap[items[i].obj].flags = "NAMED"
             heap1 == IF named THEN uacpi_object_unref(heap, items[i].obj)
                      ELSE heap
             obj1 == IF named \/ items[i].obj = 0 THEN 0
                     ELSE uacpi_unwrap_internal_reference(heap, items[i].obj)
             str == AllocObjectId(heap1)
             path == name_string_to_path(code, items[i].offset)
         IN  IF obj1 # 0
             THEN package_elements(
                      uacpi_object_assign(heap1, heap1[pkg].package[i], obj1),
                      code, items, pkg, i + 1, num_defined_elements, overrun)
             ELSE IF path.ret # "OK"
             THEN [heap |-> uacpi_create_object(heap1, str, "STRING"),
                   items |-> [items EXCEPT ![i].obj = 0],
                   ret |-> path.ret, overrun |-> overrun]
             ELSE package_path_element(
                      [uacpi_create_object(heap1, str, "STRING")
                           EXCEPT ![str].flags = "PATH",
                                  ![str].buffer =
                                      SubSeq(path.written, 1, path.size)],
                      code, [items EXCEPT ![i].obj = str], pkg, i,
                      num_defined_elements,
                      overrun \/ Len(path.written) > path.size)

\* handle_package: [heap, items, ret, overrun]; op is PackageOp or
\* VarPackageOp, num_elements the 64-bit count of the package, items the
\* pairs of the initializers and pkg the Package under construction
handle_package(heap, code, op, num_elements, items, pkg) ==
    IF op = UACPI_AML_OP_VarPackageOp /\ GreaterBytes(num_elements, SizeLimit)
    THEN [heap |-> heap, items |-> items, ret |-> "BAD_BYTECODE",
          overrun |-> FALSE]
    ELSE package_elements(
             uacpi_package_fill(heap, pkg, BytesInteger(num_elements)),
             code, items, pkg, 1,
             IF Len(items) > BytesInteger(num_elements)
             THEN BytesInteger(num_elements) ELSE Len(items),
             FALSE)

\* the bit_length a Create*Field op other than CreateField gives the field,
\* 0 for an op that is none of them
fixed_bit_length(code) ==
    CASE code = UACPI_AML_OP_CreateBitFieldOp -> 1
      [] code = UACPI_AML_OP_CreateByteFieldOp -> 8
      [] code = UACPI_AML_OP_CreateWordFieldOp -> 16
      [] code = UACPI_AML_OP_CreateDWordFieldOp -> 32
      [] code = UACPI_AML_OP_CreateQWordFieldOp -> 64
      [] OTHER -> 0

\* the check of the field against the buffer of size bytes
field_overruns_unwrapped(bit_index, bit_length, size) ==
    GreaterBytes(AddBytes(bit_index \o <<0>>, bit_length \o <<0>>, 0),
                 IntegerBytes(size * 8, 9))

field_overruns(bit_index, bit_length, size) ==
    GreaterBytes(Add64(bit_index, bit_length), IntegerBytes(size * 8, 8))

\* handle_create_buffer_field of the op with the code, on a buffer of size
\* bytes with the index operand idx and, for CreateField, the length operand
\* len: [ret, bound, bit_index, bit_length], bound telling that the node got
\* the field as its object
handle_create_buffer_field(code, idx, len, size) ==
    LET bit_index == IF code = UACPI_AML_OP_CreateFieldOp THEN idx
                     ELSE Times8(idx)
        bit_length == IF code = UACPI_AML_OP_CreateFieldOp THEN len
                      ELSE IntegerBytes(fixed_bit_length(code), 8)
        unbound == [bound |-> FALSE, bit_index |-> bit_index,
                    bit_length |-> bit_length]
    IN  IF code = UACPI_AML_OP_CreateFieldOp
           /\ (len = IntegerBytes(0, 8)
               \/ GreaterBytes(len, <<255, 255, 255, 255, 0, 0, 0, 0>>))
        THEN unbound @@ [ret |-> "BAD_BYTECODE"]
        ELSE IF code # UACPI_AML_OP_CreateFieldOp /\ fixed_bit_length(code) = 0
        THEN unbound @@ [ret |-> "INVALID_ARGUMENT"]
        ELSE IF field_overruns(bit_index, bit_length, size)
        THEN unbound @@ [ret |-> "BAD_BYTECODE"]
        ELSE [unbound EXCEPT !.bound = TRUE] @@ [ret |-> "OK"]

\* object_assign_with_implicit_cast: [heap, ret]; an Integer, a String or a
\* Buffer keeps its type and its size and takes the bytes of the source
object_assign_with_implicit_cast(heap, dst, src) ==
    LET src_buf == get_object_storage(heap, src, FALSE)
        dst_buf == get_object_storage(heap, dst, FALSE)
    IN  IF src_buf.ret # "OK" THEN [heap |-> heap, ret |-> src_buf.ret]
        ELSE IF heap[dst].type \in {"INTEGER", "STRING", "BUFFER"}
        THEN [heap |-> [heap EXCEPT ![dst] =
                            WithStorage(@, uacpi_memcpy_zerout(dst_buf.bytes,
                                                               src_buf.bytes))],
              ret |-> "OK"]
        ELSE IF heap[dst].type = "BUFFER_FIELD"
        THEN [heap |-> [heap EXCEPT
                           ![heap[dst].buffer_field.backing].buffer =
                               write_buffer_field(@, heap[dst].buffer_field,
                                                  src_buf.bytes)],
              ret |-> "OK"]
        ELSE IF heap[dst].type = "BUFFER_INDEX"
        THEN [heap |-> write_buffer_index(heap, heap[dst].buffer_index,
                                          src_buf.bytes),
              ret |-> "OK"]
        ELSE [heap |-> heap, ret |-> "BAD_BYTECODE"]

\* copy_object_to_reference: the Reference whose child is replaced
copy_object_target_same(heap, dst0) == dst0

copy_object_target_unwound(heap, dst0) == reference_unwind(heap, dst0)

copy_object_target(heap, dst0) ==
    LET referenced_obj == uacpi_unwrap_internal_reference(heap, dst0)
    IN  IF heap[dst0].flags = "ARG" /\ heap[referenced_obj].type = "REFERENCE"
        THEN reference_unwind(heap, referenced_obj)
        ELSE dst0

\* copy_object_to_reference: [heap, ret]
copy_object_to_reference(heap, dst0, src) ==
    LET flags == heap[dst0].flags
        dst == copy_object_target(heap, dst0)
        src_obj == uacpi_unwrap_internal_reference(heap, src)
        new_obj == AllocObjectId(heap)
        h1 == uacpi_object_assign(
                  uacpi_create_object(heap, new_obj, "UNINITIALIZED"),
                  new_obj, src_obj)
    IN  IF flags \notin {"ARG", "LOCAL", "PKG_INDEX", "NAMED"}
        THEN [heap |-> heap, ret |-> "INVALID_ARGUMENT"]
        ELSE IF new_obj = 0 THEN [heap |-> heap, ret |-> "OUT_OF_MEMORY"]
        ELSE [heap |-> uacpi_object_unref(
                           object_replace_child(h1, dst, new_obj), new_obj),
              ret |-> "OK"]

\* store_to_reference: whether the target of the kind is overwritten, before
\* the object it ends in is looked at
store_overwrites_always(flags, chained) == TRUE

store_overwrites(flags, chained) ==
    CASE flags \in {"LOCAL", "ARG", "PKG_INDEX"} ->
            IF chained THEN flags = "ARG" ELSE TRUE
      [] OTHER -> FALSE

\* store_to_reference: [heap, ret]
store_to_reference(heap, dst0, src) ==
    LET flags == heap[dst0].flags
        referenced_obj == IF flags = "PKG_INDEX" THEN heap[dst0].inner_object
                          ELSE uacpi_unwrap_internal_reference(heap, dst0)
        chained == heap[referenced_obj].type = "REFERENCE"
        dst == CASE flags \in {"LOCAL", "ARG", "PKG_INDEX"} ->
                      IF chained THEN reference_unwind(heap, referenced_obj)
                      ELSE dst0
                 [] OTHER -> reference_unwind(heap, dst0)
        overwrite0 == store_overwrites(flags, chained)
        src_obj == uacpi_unwrap_internal_reference(heap, src)
        overwrite == overwrite0
                     \/ heap[heap[dst].inner_object].type = "UNINITIALIZED"
        new_obj == AllocObjectId(heap)
        h1 == uacpi_object_assign(
                  uacpi_create_object(heap, new_obj, "UNINITIALIZED"),
                  new_obj, src_obj)
    IN  IF flags \notin {"LOCAL", "ARG", "PKG_INDEX", "NAMED"}
        THEN [heap |-> heap, ret |-> "INVALID_ARGUMENT"]
        ELSE IF overwrite
        THEN IF new_obj = 0 THEN [heap |-> heap, ret |-> "OUT_OF_MEMORY"]
             ELSE [heap |-> uacpi_object_unref(
                                object_replace_child(h1, dst, new_obj), new_obj),
                   ret |-> "OK"]
        ELSE object_assign_with_implicit_cast(heap, heap[dst].inner_object, src_obj)

\* store_to_target: [heap, ret]
store_to_target_lenient(heap, dst, src) ==
    IF heap[dst].type = "REFERENCE" THEN store_to_reference(heap, dst, src)
    ELSE [heap |-> heap, ret |-> "OK"]

store_to_target(heap, dst, src) ==
    CASE heap[dst].type = "DEBUG" -> [heap |-> heap, ret |-> "OK"]
      [] heap[dst].type = "REFERENCE" -> store_to_reference(heap, dst, src)
      [] heap[dst].type = "BUFFER_INDEX" ->
            object_assign_with_implicit_cast(heap, dst, src)
      [] heap[dst].type = "INTEGER" /\ heap[dst].integer = 0 ->
            [heap |-> heap, ret |-> "OK"]
      [] OTHER -> [heap |-> heap, ret |-> "BAD_BYTECODE"]

\* handle_copy_object_or_store of the op with the code: [heap, ret]
copy_object_or_store(heap, code, dst, src) ==
    IF code = UACPI_AML_OP_StoreOp THEN store_to_target(heap, dst, src)
    ELSE IF heap[dst].type # "REFERENCE"
    THEN [heap |-> heap, ret |-> "BAD_BYTECODE"]
    ELSE copy_object_to_reference(heap, dst, src)

handle_copy_object_or_store(M) ==
    LET src == CurOpCtx(M).items[1].obj
        dst == CurOpCtx(M).items[2].obj
        r == copy_object_or_store(M.heap, CurOpCtx(M).op, dst, src)
    IN  Handled([M EXCEPT !.heap = r.heap], r.ret)

(***************************************************************************)
(* Namespace nodes owned by the interpreter (namespace.c)                  *)
(***************************************************************************)
\* uacpi_namespace_node_free: the node's slot and its reference on the
\* node's object are released; UACPI_NULL is ignored
uacpi_namespace_node_free(M, n) ==
    IF n = 0 THEN M
    ELSE [M EXCEPT !.heap = uacpi_object_unref(@, M.ns[n].object),
                   !.ns[n] = FreeNode]

\* uacpi_node_uninstall: unlink the node from its parent and free it; the
\* call is recorded in uninstalled
uacpi_node_uninstall(M, n) ==
    [uacpi_namespace_node_free(M, n) EXCEPT !.uninstalled = Append(@, n)]

(***************************************************************************)
(* Op contexts                                                             *)
(***************************************************************************)
push_op(M) ==
    [M EXCEPT !.frames[M.cur_frame].pending_ops = Append(@, NewOpContext(M.cur_op))]

RECURSIVE release_items(_, _, _)
release_items(M, items, i) ==
    IF i = 0 THEN M
    ELSE LET item == items[i]
             unrefd == IF item.type = ITEM_OBJECT
                       THEN [M EXCEPT !.heap = uacpi_object_unref(@, item.obj)]
                       ELSE M
             freed == IF item.type = ITEM_NAMESPACE_NODE_METHOD_LOCAL
                      THEN uacpi_namespace_node_free(unrefd, item.node)
                      ELSE unrefd
         IN  release_items(freed, items, i - 1)

pop_op(M) ==
    LET items == CurOpCtx(M).items
        released == release_items(M, items, Len(items))
    IN  [released EXCEPT !.frames[M.cur_frame].pending_ops = PopSeq(@),
                         !.pops = @ + 1]

\* get_op: [ret, M]; the op spec found is left in cur_op
UACPI_EXT_PREFIX == 91

get_op(M) ==
    LET fr == CurFrame(M)
        method == FrameMethod(M, fr)
        first == AmlRead(method, fr.code_offset)
        second == AmlRead(method, fr.code_offset + 1)
        ext == first = UACPI_EXT_PREFIX
        spec == IF ext THEN uacpi_get_op_spec(first * 256 + second)
                ELSE OpSpecOfByte(first)
        read == [M EXCEPT !.frames[M.cur_frame].code_offset =
                              @ + (IF ext THEN 2 ELSE 1),
                          !.cur_op = spec.code]
    IN  IF fr.code_offset >= method.size
        THEN [ret |-> "OUT_OF_BOUNDS", M |-> M]
        ELSE IF ext /\ fr.code_offset + 1 >= method.size
        THEN [ret |-> "OUT_OF_BOUNDS",
              M |-> [M EXCEPT !.frames[M.cur_frame].code_offset = @ + 1]]
        ELSE IF "RESERVED" \in spec.properties
        THEN [ret |-> "BAD_BYTECODE", M |-> read]
        ELSE [ret |-> "OK", M |-> read]

(***************************************************************************)
(* Tables and checks of exec_op                                            *)
(***************************************************************************)
\* the parse ops that preempt the op to wait for a dynamic argument
DynamicArgOps ==
    { UACPI_PARSE_OP_SIMPLE_NAME, UACPI_PARSE_OP_SUPERNAME,
      UACPI_PARSE_OP_SUPERNAME_IMPLICIT_DEREF,
      UACPI_PARSE_OP_SUPERNAME_OR_UNRESOLVED, UACPI_PARSE_OP_TERM_ARG,
      UACPI_PARSE_OP_TERM_ARG_UNWRAP_INTERNAL,
      UACPI_PARSE_OP_TERM_ARG_OR_NAMED_OBJECT,
      UACPI_PARSE_OP_TERM_ARG_OR_NAMED_OBJECT_OR_UNRESOLVED,
      UACPI_PARSE_OP_OPERAND, UACPI_PARSE_OP_COMPUTATIONAL_DATA,
      UACPI_PARSE_OP_TARGET }

parse_op_generates_item(op) ==
    CASE op \in DynamicArgOps -> ITEM_EMPTY_OBJECT
      [] op \in {UACPI_PARSE_OP_PKGLEN, UACPI_PARSE_OP_TRACKED_PKGLEN} ->
            ITEM_PACKAGE_LENGTH
      [] op = UACPI_PARSE_OP_CREATE_NAMESTRING -> ITEM_NAMESPACE_NODE_METHOD_LOCAL
      [] op \in {UACPI_PARSE_OP_EXISTING_NAMESTRING,
                 UACPI_PARSE_OP_EXISTING_NAMESTRING_OR_NULL} -> ITEM_NAMESPACE_NODE
      [] op \in {UACPI_PARSE_OP_LOAD_INLINE_IMM_AS_OBJECT,
                 UACPI_PARSE_OP_LOAD_IMM_AS_OBJECT,
                 UACPI_PARSE_OP_LOAD_FALSE_OBJECT,
                 UACPI_PARSE_OP_LOAD_TRUE_OBJECT,
                 UACPI_PARSE_OP_OBJECT_ALLOC,
                 UACPI_PARSE_OP_OBJECT_ALLOC_TYPED,
                 UACPI_PARSE_OP_OBJECT_CONVERT_TO_SHALLOW_COPY,
                 UACPI_PARSE_OP_OBJECT_CONVERT_TO_DEEP_COPY} -> ITEM_OBJECT
      [] op \in {UACPI_PARSE_OP_LOAD_INLINE_IMM, UACPI_PARSE_OP_LOAD_IMM,
                 UACPI_PARSE_OP_RECORD_AML_PC} -> ITEM_IMMEDIATE
      [] op = UACPI_PARSE_OP_EMPTY_OBJECT_ALLOC -> ITEM_EMPTY_OBJECT
      [] OTHER -> ITEM_NONE

op_wants_supername(op) ==
    op \in { UACPI_PARSE_OP_SIMPLE_NAME, UACPI_PARSE_OP_SUPERNAME,
             UACPI_PARSE_OP_SUPERNAME_IMPLICIT_DEREF,
             UACPI_PARSE_OP_SUPERNAME_OR_UNRESOLVED, UACPI_PARSE_OP_TARGET }

op_allows_unresolved(op) ==
    op \in { UACPI_PARSE_OP_SUPERNAME_OR_UNRESOLVED,
             UACPI_PARSE_OP_TERM_ARG_OR_NAMED_OBJECT_OR_UNRESOLVED,
             UACPI_PARSE_OP_EXISTING_NAMESTRING_OR_NULL }

\* op_typecheck: the status for the current op as the argument the
\* preempted op is waiting for
op_typecheck_mask_target_only(waiting) ==
    CASE waiting = UACPI_PARSE_OP_SIMPLE_NAME -> {"SIMPLE_NAME"}
      [] waiting = UACPI_PARSE_OP_TARGET -> {"TARGET"}
      [] waiting \in { UACPI_PARSE_OP_SUPERNAME,
                       UACPI_PARSE_OP_SUPERNAME_IMPLICIT_DEREF,
                       UACPI_PARSE_OP_SUPERNAME_OR_UNRESOLVED } ->
            {"SUPERNAME"}
      [] waiting \in { UACPI_PARSE_OP_TERM_ARG,
                       UACPI_PARSE_OP_TERM_ARG_UNWRAP_INTERNAL,
                       UACPI_PARSE_OP_TERM_ARG_OR_NAMED_OBJECT,
                       UACPI_PARSE_OP_TERM_ARG_OR_NAMED_OBJECT_OR_UNRESOLVED,
                       UACPI_PARSE_OP_OPERAND,
                       UACPI_PARSE_OP_COMPUTATIONAL_DATA } ->
            {"TERM_ARG"}
      [] OTHER -> {}

\* ok_mask: the switch on *op_decode_cursor(op_ctx) (lines 3036-3066)
op_typecheck_mask(waiting) ==
    CASE waiting = UACPI_PARSE_OP_SIMPLE_NAME -> {"SIMPLE_NAME"}
      [] waiting = UACPI_PARSE_OP_TARGET -> {"TARGET", "SUPERNAME"}
      [] waiting \in { UACPI_PARSE_OP_SUPERNAME,
                       UACPI_PARSE_OP_SUPERNAME_IMPLICIT_DEREF,
                       UACPI_PARSE_OP_SUPERNAME_OR_UNRESOLVED } ->
            {"SUPERNAME"}
      [] waiting \in { UACPI_PARSE_OP_TERM_ARG,
                       UACPI_PARSE_OP_TERM_ARG_UNWRAP_INTERNAL,
                       UACPI_PARSE_OP_TERM_ARG_OR_NAMED_OBJECT,
                       UACPI_PARSE_OP_TERM_ARG_OR_NAMED_OBJECT_OR_UNRESOLVED,
                       UACPI_PARSE_OP_OPERAND,
                       UACPI_PARSE_OP_COMPUTATIONAL_DATA } ->
            {"TERM_ARG"}
      [] OTHER -> {}

\* the test of props against ok_mask (lines 3068-3074)
op_typecheck_props(waiting, props) ==
    IF props \cap op_typecheck_mask(waiting) = {}
    THEN "BAD_BYTECODE" ELSE "OK"

op_typecheck(prev_oc, cur_oc) ==
    op_typecheck_props(DecodeAt(prev_oc, prev_oc.pc),
                       uacpi_get_op_spec(cur_oc.op).properties)

typecheck_operand(heap, obj) ==
    IF heap[obj].type = "INTEGER" THEN "OK" ELSE "BAD_BYTECODE"

\* op_handlers[handler_idx_of_op[code]]: the handler of the opcode
op_handler(M, code) ==
    CASE code = UACPI_AML_OP_Local0Op -> handle_local(M)
      [] code = UACPI_AML_OP_Arg0Op -> handle_arg(M)
      [] code = UACPI_AML_OP_InternalOpNamedObject -> handle_named_object(M)
      [] code \in {UACPI_AML_OP_IfOp, UACPI_AML_OP_ElseOp,
                   UACPI_AML_OP_WhileOp, UACPI_AML_OP_ScopeOp} ->
            handle_code_block(M)
      [] code \in {UACPI_AML_OP_BreakOp, UACPI_AML_OP_ContinueOp} ->
            handle_control_flow(M)
      [] code = UACPI_AML_OP_ReturnOp -> handle_return(M)
      [] code = UACPI_AML_OP_StoreOp -> handle_copy_object_or_store(M)
      [] code = UACPI_AML_OP_NameOp -> handle_create_named(M)
      [] OTHER -> Handled(M, "UNIMPLEMENTED")

\* what the handler did (r), recorded for the machine M it was invoked on
handler_event(M, r) ==
    LET oc == CurOpCtx(M)
        code == oc.op
        fr == CurFrame(M)
        is_block == code \in {UACPI_AML_OP_IfOp, UACPI_AML_OP_ElseOp,
                              UACPI_AML_OP_WhileOp, UACPI_AML_OP_ScopeOp}
        has_pred == code \in {UACPI_AML_OP_IfOp, UACPI_AML_OP_WhileOp}
        pred_zero == has_pred /\ M.heap[oc.items[2].obj].integer = 0
        depth == Len(fr.code_blocks)
        event == [code |-> code,
                  frame |-> M.cur_frame,
                  pred_zero |-> pred_zero,
                  op_offset |-> IF is_block THEN oc.items[1].begin - 1 ELSE 0,
                  pkg_end |-> IF is_block THEN oc.items[1].end ELSE 0,
                  code_offset |-> fr.code_offset,
                  code_blocks |-> fr.code_blocks,
                  last_while |-> fr.last_while,
                  if_log |-> fr.if_log,
                  ret |-> r.ret]
        logged == [r.M EXCEPT !.hev = event]
        noted ==
            CASE code = UACPI_AML_OP_IfOp /\ r.ret = "OK" ->
                   [logged EXCEPT !.frames[M.cur_frame].if_log =
                        {e \in @ : e.depth # depth}
                        \cup {[depth |-> depth, end |-> oc.items[1].end,
                               zero |-> pred_zero]}]
              [] code = UACPI_AML_OP_ReturnOp ->
                   [logged EXCEPT !.frames[M.cur_frame].returned = TRUE]
              [] OTHER -> logged
    IN  [r EXCEPT !.M = noted]

invoke_handler(M) == handler_event(M, op_handler(M, CurOpCtx(M).op))

(***************************************************************************)
(* The parse ops of exec_op.  Each takes the machine after op_decode_byte  *)
(* and the item bookkeeping of the loop head, and yields                   *)
(*   [M, item, ret, stop, crashed]                                         *)
(* item being the index of exec_op's local `item` (0: UACPI_NULL), stop    *)
(* telling that exec_op returns ret, crashed that it dereferenced          *)
(* UACPI_NULL.                                                             *)
(***************************************************************************)
Go(M, item, ret) ==
    [M |-> M, item |-> item, ret |-> ret, stop |-> FALSE, crashed |-> FALSE]
Stop(M, ret) ==
    [M |-> M, item |-> 0, ret |-> ret, stop |-> TRUE, crashed |-> FALSE]
Crash(M) ==
    [M |-> M, item |-> 0, ret |-> "OK", stop |-> TRUE, crashed |-> TRUE]

SetPc(M, pc) ==
    [M EXCEPT !.frames[M.cur_frame].pending_ops[cur_op_ctx(M)].pc = pc]

\* the value of width bytes of the parse program at pc, least significant
\* byte first (uacpi_memcpy_zerout into a zeroed u64)
RECURSIVE InlineImmediate(_, _, _)
InlineImmediate(oc, pc, width) ==
    IF width = 0 THEN 0
    ELSE DecodeAt(oc, pc) + 256 * InlineImmediate(oc, pc + 1, width - 1)

\* UACPI_PARSE_OP_END that leaves the pc of the previous op where it is
parse_op_end_keeps_pc(M) ==
    LET oc == CurOpCtx(M)
        moved == IF oc.tracked_pkg_idx # 0
                 THEN [M EXCEPT !.frames[M.cur_frame].code_offset =
                                    oc.items[oc.tracked_pkg_idx].end]
                 ELSE M
        popped == pop_op(moved)
    IN  IF cur_op_ctx(popped) # 0
        THEN Stop(PutOpCtx(popped, [CurOpCtx(popped) EXCEPT !.preempted = FALSE]),
                  "OK")
        ELSE Stop(popped, "OK")

\* case UACPI_PARSE_OP_END
parse_op_end(M) ==
    LET oc == CurOpCtx(M)
        moved == IF oc.tracked_pkg_idx # 0
                 THEN [M EXCEPT !.frames[M.cur_frame].code_offset =
                                    oc.items[oc.tracked_pkg_idx].end]
                 ELSE M
        popped == pop_op(moved)
    IN  IF cur_op_ctx(popped) # 0
        THEN Stop(PutOpCtx(popped, [CurOpCtx(popped) EXCEPT !.preempted = FALSE,
                                                            !.pc = @ + 1]),
                  "OK")
        ELSE Stop(popped, "OK")

\* the dynamic argument cases: preempt the op
parse_op_preempt(M) ==
    Stop(PutOpCtx(M, [CurOpCtx(M) EXCEPT !.preempted = TRUE, !.pc = @ - 1]), "OK")

\* case UACPI_PARSE_OP_TRACKED_PKGLEN, UACPI_PARSE_OP_PKGLEN
parse_op_pkglen(M, item, op) ==
    LET oc == CurOpCtx(M)
        tracked == IF op = UACPI_PARSE_OP_TRACKED_PKGLEN
                   THEN PutOpCtx(M, [oc EXCEPT !.tracked_pkg_idx = Len(oc.items)])
                   ELSE M
        pkg == parse_package_length(M, CurFrame(M))
        parsed == PutItem(tracked, item,
                          [oc.items[item] EXCEPT !.begin = pkg.begin,
                                                 !.end = pkg.end])
    IN  Go([parsed EXCEPT !.frames[M.cur_frame].code_offset = pkg.code_offset],
           item, pkg.ret)

\* case UACPI_PARSE_OP_LOAD_INLINE_IMM, UACPI_PARSE_OP_LOAD_INLINE_IMM_AS_OBJECT
parse_op_load_inline_imm(M, item, op) ==
    LET oc == CurOpCtx(M)
        it == oc.items[item]
    IN  IF op = UACPI_PARSE_OP_LOAD_INLINE_IMM_AS_OBJECT
        THEN Go(SetPc([M EXCEPT !.heap[it.obj].type = "INTEGER",
                                !.heap[it.obj].integer =
                                    InlineImmediate(oc, oc.pc, 8)],
                      oc.pc + 8),
                item, "OK")
        ELSE LET src_width == DecodeAt(oc, oc.pc)
             IN  Go(SetPc(PutItem(M, item,
                                  [it EXCEPT !.immediate =
                                      InlineImmediate(oc, oc.pc + 1, src_width)]),
                          oc.pc + 1 + src_width),
                    item, "OK")

\* case UACPI_PARSE_OP_IF_NOT_NULL, UACPI_PARSE_OP_IF_NULL
parse_op_if_null(M, item, op) ==
    LET oc == CurOpCtx(M)
        idx == DecodeAt(oc, oc.pc)
        bytes_skip == DecodeAt(oc, oc.pc + 1)
        is_null == ItemHandle(oc.items[idx + 1]) = 0
        skip_if_null == op = UACPI_PARSE_OP_IF_NOT_NULL
    IN  Go(SetPc(M, oc.pc + 2 + (IF is_null = skip_if_null THEN bytes_skip ELSE 0)),
           item, "OK")

\* case UACPI_PARSE_OP_CREATE_NAMESTRING, UACPI_PARSE_OP_EXISTING_NAMESTRING,
\* UACPI_PARSE_OP_EXISTING_NAMESTRING_OR_NULL
unresolved_is_ok_for_either(prev_op, op, code) ==
    IF prev_op # 0
    THEN op_allows_unresolved(prev_op) \/ op_allows_unresolved(op)
    ELSE code = UACPI_AML_OP_ExternalOp

\* is_ok (lines 3579-3585)
unresolved_is_ok(prev_op, op, code) ==
    IF prev_op # 0
    THEN op_allows_unresolved(prev_op) /\ op_allows_unresolved(op)
    ELSE code = UACPI_AML_OP_ExternalOp

name_string_resolved(M, item, prev_op, op, r) ==
    LET it == CurOpCtx(M).items[item]
        stored == IF r.set_node THEN PutItem(M, item, [it EXCEPT !.node = r.node])
                  ELSE M
        resolved == [stored EXCEPT !.ns = r.ns,
                                   !.frames[M.cur_frame].code_offset = r.code_offset]
        is_ok == unresolved_is_ok(prev_op, op, CurOpCtx(M).op)
    IN  IF r.crashed THEN Crash(resolved)
        ELSE IF r.ret = "NOT_FOUND" /\ is_ok THEN Go(resolved, item, "OK")
        ELSE Go(resolved, item, r.ret)

parse_op_namestring(M, item, prev_op, op) ==
    name_string_resolved(M, item, prev_op, op,
        resolve_name_string(M, CurFrame(M),
                            IF op = UACPI_PARSE_OP_CREATE_NAMESTRING THEN "CREATE"
                            ELSE "FIND"))

\* case UACPI_PARSE_OP_INVOKE_HANDLER
handler_done(r, item) ==
    IF r.crashed THEN Crash(r.M) ELSE Go(r.M, item, r.ret)

parse_op_invoke_handler(M, item) == handler_done(invoke_handler(M), item)

\* case UACPI_PARSE_OP_INSTALL_NAMESPACE_NODE
parse_op_install_namespace_node(M) ==
    LET oc == CurOpCtx(M)
        item == DecodeAt(oc, oc.pc) + 1
        node == oc.items[item].node
        fr == CurFrame(M)
        installed == [SetPc(M, oc.pc + 1) EXCEPT
                         !.ns = uacpi_node_install(@, node),
                         !.frames[M.cur_frame].installs = Append(@, node)]
        pushed == IF ~FrameMethod(M, fr).named_objects_persist
                  THEN [installed EXCEPT
                           !.frames[M.cur_frame].temp_nodes = Append(@, node)]
                  ELSE [installed EXCEPT !.kept = @ \cup {node}]
    IN  IF node = 0 THEN Crash(M)
        ELSE Go(PutItem(pushed, item, [oc.items[item] EXCEPT !.node = 0]),
                item, "OK")

object_deref_implicit(heap, obj) ==
    IF heap[obj].flags # "REFOF"
       /\ (heap[obj].flags = "NAMED"
           \/ heap[heap[obj].inner_object].type # "REFERENCE")
    THEN heap[obj].inner_object
    ELSE LET from == IF heap[obj].flags # "REFOF" THEN heap[obj].inner_object
                     ELSE obj
         IN  heap[reference_unwind(heap, from)].inner_object

\* case UACPI_PARSE_OP_OBJECT_TRANSFER_TO_PREV, UACPI_PARSE_OP_OBJECT_COPY_TO_PREV
parse_op_object_to_prev(M, item, prev_op, op) ==
    LET obj == CurOpCtx(M).items[item].obj
        unwrapping == prev_op \in { UACPI_PARSE_OP_TERM_ARG_UNWRAP_INTERNAL,
                                    UACPI_PARSE_OP_COMPUTATIONAL_DATA,
                                    UACPI_PARSE_OP_OPERAND }
        known == unwrapping \/ op_wants_supername(prev_op)
                 \/ prev_op \in { UACPI_PARSE_OP_TERM_ARG,
                                  UACPI_PARSE_OP_TERM_ARG_OR_NAMED_OBJECT,
                                  UACPI_PARSE_OP_TERM_ARG_OR_NAMED_OBJECT_OR_UNRESOLVED }
        src == IF unwrapping THEN uacpi_unwrap_internal_reference(M.heap, obj)
               ELSE IF prev_op = UACPI_PARSE_OP_SUPERNAME_IMPLICIT_DEREF
               THEN object_deref_implicit(M.heap, obj)
               ELSE obj
        ret == IF ~known THEN "INVALID_ARGUMENT"
               ELSE IF prev_op = UACPI_PARSE_OP_OPERAND
               THEN typecheck_operand(M.heap, src)
               ELSE "OK"
        p == prev_op_ctx(M)
        dst == Len(PrevOpCtx(M).items)
        copy == AllocObjectId(M.heap)
        SetDst(heap, o) ==
            [M EXCEPT !.heap = heap,
                      !.frames[M.cur_frame].pending_ops[p].items[dst].type =
                          ITEM_OBJECT,
                      !.frames[M.cur_frame].pending_ops[p].items[dst].obj = o]
    IN  IF p = 0 THEN Go(M, item, "OK")
        ELSE IF known /\ obj = 0 THEN Crash(M)
        ELSE IF ret # "OK" THEN Go(M, item, ret)
        ELSE IF op = UACPI_PARSE_OP_OBJECT_TRANSFER_TO_PREV
        THEN Go(SetDst(uacpi_object_ref(M.heap, src), src), item, "OK")
        ELSE IF copy = 0 THEN Go(SetDst(M.heap, 0), item, "OUT_OF_MEMORY")
        ELSE Go(SetDst(uacpi_object_assign(
                           uacpi_create_object(M.heap, copy, "UNINITIALIZED"),
                           copy, src),
                       copy),
                item, "OK")

\* case UACPI_PARSE_OP_OBJECT_CONVERT_TO_SHALLOW_COPY and ..._DEEP_COPY
parse_op_object_convert(M, item) ==
    LET oc == CurOpCtx(M)
        temp == oc.items[item].obj
        last == Len(oc.items) - 1
        old == oc.items[last].obj
        popped == PutOpCtx(M, [oc EXCEPT !.items = PopSeq(@)])
        assigned == [popped EXCEPT !.heap =
                        uacpi_object_unref(uacpi_object_assign(@, temp, old), old)]
    IN  IF last = 0 \/ old = 0 THEN Crash(popped)
        ELSE Go(PutItem(assigned, last, [oc.items[last] EXCEPT !.obj = temp]),
                last, "OK")

\* push_new_frame: the new frame is the last of call_stack, cur_frame the
\* one before it
push_new_frame(M) ==
    [M EXCEPT !.frames = Append(@, NewFrame), !.cur_frame = Len(M.frames)]

\* frame_push_args: [M, ret]; the items between the first two and the last
\* become Arg references in the new (last) frame
\* frame_push_args that passes the operands as they are
RECURSIVE frame_push_args_raw(_, _, _)
frame_push_args_raw(M, items, i) ==
    IF i >= Len(items) THEN [M |-> M, ret |-> "OK"]
    ELSE frame_push_args_raw(
             [M EXCEPT !.heap = uacpi_object_ref(@, items[i].obj),
                       !.frames[Len(M.frames)].args[i - 3] = items[i].obj],
             items, i + 1)

RECURSIVE frame_push_args(_, _, _)
frame_push_args(M, items, i) ==
    LET dst == AllocObjectId(M.heap)
        top == Len(M.frames)
    IN  IF i >= Len(items) THEN [M |-> M, ret |-> "OK"]
        ELSE IF dst = 0 THEN [M |-> M, ret |-> "OUT_OF_MEMORY"]
        ELSE frame_push_args(
                 [M EXCEPT !.heap = uacpi_create_internal_reference(
                                        @, dst, "ARG", items[i].obj),
                           !.frames[top].args[i - 3] = dst],
                 items, i + 1)

\* frame_setup_base_scope on the frame at index f
frame_setup_base_scope(M, f, scope, method) ==
    [M EXCEPT !.frames[f].code_blocks =
                  Append(@, [type |-> CODE_BLOCK_SCOPE, node |-> scope,
                             begin |-> 0, end |-> M.methods[method].size]),
              !.frames[f].method = method,
              !.frames[f].cur_scope = scope]

\* case UACPI_PARSE_OP_DISPATCH_METHOD_CALL
parse_op_dispatch_method_call(M) ==
    LET oc == CurOpCtx(M)
        node == oc.items[1].node
        obj == uacpi_namespace_node_get_object(M.heap, M.ns, node)
        method == M.heap[obj].method
        pushed == push_new_frame(M)
        args == frame_push_args(pushed, oc.items, 3)
        based == frame_setup_base_scope(args.M, Len(pushed.frames), node, method)
    IN  IF node = 0 \/ obj = 0 THEN Crash(M)
        ELSE IF args.ret # "OK" THEN Stop(args.M, args.ret)
        ELSE Stop([based EXCEPT !.cur_frame = Len(pushed.frames)], "OK")

\* should_invoke that looks at op_wants_supername only
should_invoke_unless_supername(prev_op) == ~op_wants_supername(prev_op)

\* case UACPI_OBJECT_METHOD of CONVERT_NAMESTRING: should_invoke
should_invoke(prev_op) ==
    /\ prev_op \notin { UACPI_PARSE_OP_TERM_ARG_OR_NAMED_OBJECT,
                        UACPI_PARSE_OP_TERM_ARG_OR_NAMED_OBJECT_OR_UNRESOLVED }
    /\ ~op_wants_supername(prev_op)

\* case UACPI_PARSE_OP_CONVERT_NAMESTRING
parse_op_convert_namestring(M, item, prev_op) ==
    LET oc == CurOpCtx(M)
        node == oc.items[item].node
        obj == uacpi_namespace_node_get_object(M.heap, M.ns, node)
        new_op == IF M.heap[obj].type = "METHOD" /\ should_invoke(prev_op)
                  THEN UACPI_AML_OP_InternalOpMethodCall0Args
                       + M.methods[M.heap[obj].method].args
                  ELSE UACPI_AML_OP_InternalOpNamedObject
    IN  IF node = 0
        THEN Go(M, item, IF op_allows_unresolved(prev_op) THEN "OK"
                         ELSE "NOT_FOUND")
        ELSE IF obj = 0 THEN Crash(M)
        ELSE Go(PutOpCtx(M, [oc EXCEPT !.pc = 0, !.op = new_op]), item, "OK")

(***************************************************************************)
(* exec_op                                                                 *)
(***************************************************************************)
\* one round of the for (;;) loop of exec_op, entered with ret == OK
exec_op_round(M0, item0, prev_op) ==
    LET oc0 == CurOpCtx(M0)
        op == DecodeAt(oc0, oc0.pc)
        gen == parse_op_generates_item(op)
        obj == AllocObjectId(M0.heap)
        fresh == [NullItem EXCEPT !.type = gen,
                                  !.obj = IF gen = ITEM_OBJECT THEN obj ELSE 0]
        oc == [oc0 EXCEPT !.pc = @ + 1,
                          !.items = IF gen # ITEM_NONE THEN Append(@, fresh) ELSE @]
        decoded == PutOpCtx(M0, oc)
        M == IF gen = ITEM_OBJECT /\ obj # 0
             THEN [decoded EXCEPT !.heap =
                      uacpi_create_object(@, obj, "UNINITIALIZED")]
             ELSE decoded
        item == IF gen # ITEM_NONE \/ item0 = 0 THEN Len(oc.items) ELSE item0
    IN  IF oc0.pc = 0 /\ prev_op_ctx(M0) # 0
           /\ op_typecheck(PrevOpCtx(M0), oc0) # "OK"
        THEN Stop(M0, "BAD_BYTECODE")
        ELSE IF gen = ITEM_OBJECT /\ obj = 0 THEN Stop(M, "OUT_OF_MEMORY")
        ELSE
          CASE op = UACPI_PARSE_OP_END -> parse_op_end(M)
            [] op \in DynamicArgOps -> parse_op_preempt(M)
            [] op \in {UACPI_PARSE_OP_TRACKED_PKGLEN, UACPI_PARSE_OP_PKGLEN} ->
                  parse_op_pkglen(M, item, op)
            [] op \in {UACPI_PARSE_OP_LOAD_INLINE_IMM,
                       UACPI_PARSE_OP_LOAD_INLINE_IMM_AS_OBJECT} ->
                  parse_op_load_inline_imm(M, item, op)
            [] op \in {UACPI_PARSE_OP_BAD_OPCODE, UACPI_PARSE_OP_UNREACHABLE} ->
                  Go(M, item, "BAD_BYTECODE")
            [] op = UACPI_PARSE_OP_AML_PC_DECREMENT ->
                  Go([M EXCEPT !.frames[M.cur_frame].code_offset =
                                   SizeDiff(@, 1)],
                     item, "OK")
            [] op = UACPI_PARSE_OP_IMM_DECREMENT ->
                  Go(SetPc([M EXCEPT !.frames[M.cur_frame]
                                       .pending_ops[cur_op_ctx(M)]
                                       .items[DecodeAt(oc, oc.pc) + 1].immediate =
                                   @ - 1],
                           oc.pc + 1),
                     item, "OK")
            [] op \in {UACPI_PARSE_OP_IF_NOT_NULL, UACPI_PARSE_OP_IF_NULL} ->
                  parse_op_if_null(M, item, op)
            [] op = UACPI_PARSE_OP_JMP ->
                  Go(SetPc(M, DecodeAt(oc, oc.pc)), item, "OK")
            [] op \in {UACPI_PARSE_OP_CREATE_NAMESTRING,
                       UACPI_PARSE_OP_EXISTING_NAMESTRING,
                       UACPI_PARSE_OP_EXISTING_NAMESTRING_OR_NULL} ->
                  parse_op_namestring(M, item, prev_op, op)
            [] op = UACPI_PARSE_OP_INVOKE_HANDLER ->
                  parse_op_invoke_handler(M, item)
            [] op = UACPI_PARSE_OP_INSTALL_NAMESPACE_NODE ->
                  parse_op_install_namespace_node(M)
            [] op \in {UACPI_PARSE_OP_OBJECT_TRANSFER_TO_PREV,
                       UACPI_PARSE_OP_OBJECT_COPY_TO_PREV} ->
                  parse_op_object_to_prev(M, item, prev_op, op)
            [] op \in {UACPI_PARSE_OP_OBJECT_ALLOC,
                       UACPI_PARSE_OP_EMPTY_OBJECT_ALLOC} ->
                  Go(M, item, "OK")
            [] op = UACPI_PARSE_OP_OBJECT_CONVERT_TO_SHALLOW_COPY ->
                  parse_op_object_convert(M, item)
            [] op = UACPI_PARSE_OP_DISPATCH_METHOD_CALL ->
                  parse_op_dispatch_method_call(M)
            [] op = UACPI_PARSE_OP_CONVERT_NAMESTRING ->
                  parse_op_convert_namestring(M, item, prev_op)
            [] OTHER -> Go(M, item, "UNIMPLEMENTED")

\* the for (;;) loop of exec_op: [M, ret, crashed]
RECURSIVE exec_op_loop(_, _, _)
exec_op_next(r, prev_op) ==
    IF r.crashed THEN Crashed(r.M)
    ELSE IF r.stop \/ r.ret # "OK" THEN Handled(r.M, r.ret)
    ELSE exec_op_loop(r.M, r.item, prev_op)

exec_op_loop(M, item, prev_op) ==
    exec_op_next(exec_op_round(M, item, prev_op), prev_op)

exec_op(M) ==
    LET pushed == IF ~ctx_has_non_preempted_op(M) THEN push_op(M) ELSE M
        prev_op == IF prev_op_ctx(pushed) # 0
                   THEN DecodeAt(PrevOpCtx(pushed), PrevOpCtx(pushed).pc)
                   ELSE 0
    IN  exec_op_loop(pushed, 0, prev_op)

(***************************************************************************)
(* Leaving frames                                                          *)
(***************************************************************************)
\* the temp nodes uninstalled first to last
RECURSIVE uninstall_temp_nodes_forward(_, _)
uninstall_temp_nodes_forward(M, nodes) ==
    IF nodes = <<>> THEN M
    ELSE uninstall_temp_nodes_forward(uacpi_node_uninstall(M, Head(nodes)),
                                      Tail(nodes))

RECURSIVE uninstall_temp_nodes(_, _)
uninstall_temp_nodes(M, nodes) ==
    IF nodes = <<>> THEN M
    ELSE uninstall_temp_nodes(uacpi_node_uninstall(M, nodes[Len(nodes)]),
                              PopSeq(nodes))

RECURSIVE unref_slots(_, _, _)
unref_slots(heap, slots, i) ==
    IF i < 0 THEN heap
    ELSE unref_slots(uacpi_object_unref(heap, slots[i]), slots, i - 1)

\* call_frame_clear on the frame at index f; the call is recorded in clears
call_frame_clear(M, f) ==
    LET fr == M.frames[f]
        uninstalled == uninstall_temp_nodes(M, fr.temp_nodes)
        heap == unref_slots(unref_slots(uninstalled.heap, fr.args, 6),
                            fr.locals, 7)
        record == [persist |-> IF fr.method = 0 THEN FALSE
                               ELSE M.methods[fr.method].named_objects_persist,
                   installs |-> fr.installs,
                   uninstalled |-> SubSeq(uninstalled.uninstalled,
                                          Len(M.uninstalled) + 1,
                                          Len(uninstalled.uninstalled)),
                   dropped_ops |-> Len(fr.pending_ops)]
    IN  [uninstalled EXCEPT
            !.heap = heap,
            !.frames[f] = [fr EXCEPT !.pending_ops = <<>>, !.code_blocks = <<>>,
                                     !.temp_nodes = <<>>],
            !.clears = Append(@, record)]

\* ctx_reload_post_ret that leaves the cleared frame on the call stack
ctx_reload_post_ret_keeps_frame(M) ==
    LET cleared == call_frame_clear(M, M.cur_frame)
    IN  [cleared EXCEPT !.cur_frame = M.cur_frame - 1]

ctx_reload_post_ret(M) ==
    LET cleared == call_frame_clear(M, M.cur_frame)
    IN  [cleared EXCEPT !.frames = PopSeq(@), !.cur_frame = Len(M.frames) - 1]

\* execution_context_release.  ctx->cur_frame is not moved while the frames
\* are popped: once its frame is gone it points at the slot of a popped
\* frame, whose pending_ops array call_frame_clear has emptied.
RECURSIVE pop_pending_ops(_)
pop_pending_ops(M) ==
    IF CurFrame(M).pending_ops = <<>> THEN M ELSE pop_pending_ops(pop_op(M))

RECURSIVE release_frames(_)
release_frames(M) ==
    IF M.frames = <<>> THEN M
    ELSE LET popped == IF M.cur_frame \in 1 .. Len(M.frames)
                       THEN pop_pending_ops(M)
                       ELSE M
             cleared == call_frame_clear(popped, Len(M.frames))
         IN  release_frames([cleared EXCEPT !.frames = PopSeq(@)])

execution_context_release(M) ==
    release_frames([M EXCEPT !.heap = uacpi_object_unref(@, M.ret)])

(***************************************************************************)
(* Bytecode of the methods that are executed.                              *)
(***************************************************************************)
\* a byte that is no opcode (reserved by the ACPI specification)
ReservedByte == 2

Noop == <<UACPI_AML_OP_NoopOp>>
One == <<UACPI_AML_OP_OneOp>>
Zero == <<UACPI_AML_OP_ZeroOp>>
Local0 == <<UACPI_AML_OP_Local0Op>>
Arg0 == <<UACPI_AML_OP_Arg0Op>>
BreakStmt == <<UACPI_AML_OP_BreakOp>>
ContinueStmt == <<UACPI_AML_OP_ContinueOp>>
BadStmt == <<ReservedByte>>
CallMTH == SegMTH
ReturnStmt(arg) == <<UACPI_AML_OP_ReturnOp>> \o arg
StoreStmt(src, dst) == <<UACPI_AML_OP_StoreOp>> \o src \o dst
NameStmt(seg, value) == <<UACPI_AML_OP_NameOp>> \o seg \o value

\* blocks: the package length counts its own byte, the predicate or name
\* and the body; skew makes it wrong by that much
IfBlock(pred, body, skew) ==
    <<UACPI_AML_OP_IfOp, 1 + Len(pred) + Len(body) + skew>> \o pred \o body
ElseBlock(body) ==
    <<UACPI_AML_OP_ElseOp, 1 + Len(body)>> \o body
WhileBlock(pred, body, skew) ==
    <<UACPI_AML_OP_WhileOp, 1 + Len(pred) + Len(body) + skew>> \o pred \o body
ScopeBlock(body, skew) ==
    <<UACPI_AML_OP_ScopeOp, 3 + Len(body) + skew, RootChar, UACPI_NULL_NAME>>
    \o body

\* the kinds of block a level of a chain can be, and the code of a level
\* of the kind around an inner body
LevelKinds == {"IfOne", "IfOneElse", "IfZeroElse", "WhileOne", "WhileLocal0",
               "Scope"}

Level(kind, inner, skew) ==
    CASE kind = "IfOne" -> IfBlock(One, inner, skew)
      [] kind = "IfOneElse" -> IfBlock(One, inner, skew) \o ElseBlock(Noop)
      [] kind = "IfZeroElse" -> IfBlock(Zero, Noop, skew) \o ElseBlock(inner)
      [] kind = "WhileOne" -> WhileBlock(One, inner, skew)
      [] kind = "WhileLocal0" -> WhileBlock(Local0, inner, skew)
      [] kind = "Scope" -> ScopeBlock(inner, skew)

\* a chain: levels (outermost first) of [kind, tail], tail telling whether
\* a Noop follows the level inside its parent, around the innermost body;
\* skew applies to the innermost level
RECURSIVE Chain(_, _, _)
Chain(levels, body, skew) ==
    IF levels = <<>> THEN body
    ELSE LET inner == Chain(Tail(levels), body, skew)
             here == Level(Head(levels).kind, inner,
                           IF Len(levels) = 1 THEN skew ELSE 0)
         IN  IF Head(levels).tail THEN here \o Noop ELSE here

LevelSet == [kind : LevelKinds, tail : BOOLEAN]

Chains(depth) ==
    UNION {[1 .. d -> LevelSet] : d \in 0 .. depth}

\* the statements an innermost body ends with, and what may precede them
LastStmts ==
    { Noop, BreakStmt, ContinueStmt, BadStmt,
      ReturnStmt(One), StoreStmt(Zero, Local0), StoreStmt(One, <<>>),
      NameStmt(SegFOO, One), NameStmt(SegBAR, One) }

FirstStmts == { <<>>, NameStmt(SegFOO, One) }

Prelude == StoreStmt(One, Local0)

\* control flow: a chain of blocks around one or two statements, after a
\* prelude that makes Local0 an Integer
ControlFlowMethods ==
    { Prelude \o Chain(levels, first \o last, 0) :
        levels \in Chains(MaxDepth), first \in FirstStmts, last \in LastStmts }

\* blocks whose package length is off by one
SkewedMethods ==
    { Prelude \o Chain(levels, last, skew) \o Noop :
        levels \in Chains(MaxDepth) \ {<<>>},
        last \in {Noop, ReturnStmt(One)}, skew \in {-1, 1} }

\* a Scope that names a node, and blocks inside and around a Scope of MTH_
ScopeAt(name, body) ==
    <<UACPI_AML_OP_ScopeOp, 1 + Len(name) + Len(body)>> \o name \o body

ScopeMethods ==
    { ScopeAt(SegMTH, body) \o Noop :
        body \in { Noop, ScopeBlock(Noop, 0) \o Noop,
                   IfBlock(One, Noop, 0) \o Noop,
                   WhileBlock(One, BreakStmt, 0) \o Noop,
                   WhileBlock(One, ScopeBlock(BreakStmt, 0), 0) \o Noop } }
    \cup
    { WhileBlock(One, ScopeAt(SegMTH, body), 0) \o Noop :
        body \in { BreakStmt, IfBlock(One, BreakStmt, 0) } }

\* calls of the method MTH_
CallerMethods ==
    { CallMTH, CallMTH \o Noop, StoreStmt(CallMTH, Local0),
      ReturnStmt(CallMTH), NameStmt(SegFOO, CallMTH),
      IfBlock(One, CallMTH, 0) \o ElseBlock(Noop),
      WhileBlock(One, CallMTH \o BreakStmt, 0) }

CalleeMethods ==
    { Noop, BadStmt, ReturnStmt(One), NameStmt(SegBAR, One),
      StoreStmt(One, <<>>), WhileBlock(One, ReturnStmt(One), 0) }

\* calls of the method MTH_ with one argument
ArgCallerMethods ==
    { CallMTH \o One, ReturnStmt(CallMTH \o One),
      Prelude \o StoreStmt(CallMTH \o Local0, Local0) }

\* methods that use their argument
ArgMethods ==
    { ReturnStmt(One), ReturnStmt(Arg0), StoreStmt(One, Arg0) }

(***************************************************************************)
(* State.  The first group is struct execution_context and what it points  *)
(* to, the second the call of uacpi_execute_control_method under way, the  *)
(* third what the last step of the driver did.                             *)
(***************************************************************************)
VARIABLES
    methods,     \* <<the method executed, the method of the node MTH_>>
    frames,      \* ctx->call_stack
    cur_frame,   \* ctx->cur_frame, an index of frames or 0
    cur_op,      \* ctx->cur_op, an opcode
    heap,        \* the objects
    ns,          \* the namespace nodes
    ret,         \* ctx->ret
    skip_else,   \* ctx->skip_else
    args,        \* the args parameter
    want_ret,    \* whether the ret parameter is not UACPI_NULL
    out_ret,     \* *ret, 0 as long as nothing was written to it
    st,          \* the local st of uacpi_execute_control_method
    phase,       \* "entry", "loop", "out", "release", "returned", "crashed"
    baseline,    \* the number of live objects when the call was made
    kept,        \* the nodes installed by methods whose named objects persist
    step,        \* the last step taken
    pre,         \* the frame the last step started in
    hev,         \* the handler the last step invoked
    clears,      \* the call_frame_clear calls of the last step
    pops,        \* the number of pop_op calls of the last step
    unit         \* a function applied on its own: its inputs and results

vars == <<methods, frames, cur_frame, cur_op, heap, ns, ret, skip_else, args,
          want_ret, out_ret, st, phase, baseline, kept, step, pre, hev, clears,
          pops, unit>>

\* no function is applied on its own during a call of
\* uacpi_execute_control_method
NoUnit == [fn |-> "none"]

NoHandler ==
    [code |-> 0, frame |-> 0, pred_zero |-> FALSE, op_offset |-> 0,
     pkg_end |-> 0, code_offset |-> 0, code_blocks |-> <<>>, last_while |-> 0,
     if_log |-> {}, ret |-> "OK"]

\* the machine the operators above work on, at the start of a step
Machine ==
    [methods |-> methods, frames |-> frames, cur_frame |-> cur_frame,
     cur_op |-> cur_op, heap |-> heap, ns |-> ns, ret |-> ret,
     skip_else |-> skip_else, kept |-> kept, hev |-> NoHandler,
     clears |-> <<>>, uninstalled |-> <<>>, pops |-> 0]

Commit(M) ==
    /\ frames' = M.frames
    /\ cur_frame' = M.cur_frame
    /\ cur_op' = M.cur_op
    /\ heap' = M.heap
    /\ ns' = M.ns
    /\ ret' = M.ret
    /\ skip_else' = M.skip_else
    /\ kept' = M.kept
    /\ hev' = M.hev
    /\ clears' = M.clears
    /\ pops' = M.pops

\* what a step remembers of the state it started in
Snapshot(M, fetched) ==
    [depth |-> Len(M.frames),
     cur_frame |-> M.cur_frame,
     fetched |-> fetched,
     method |-> IF M.cur_frame = 0 THEN 0 ELSE CurFrame(M).method,
     code_offset |-> IF M.cur_frame = 0 THEN 0 ELSE CurFrame(M).code_offset,
     code_blocks |-> IF M.cur_frame = 0 THEN <<>> ELSE CurFrame(M).code_blocks,
     returned |-> IF M.cur_frame = 0 THEN FALSE ELSE CurFrame(M).returned,
     pending |-> [f \in 1 .. Len(M.frames) |-> Len(M.frames[f].pending_ops)]]

(***************************************************************************)
(* Init: a call of uacpi_execute_control_method is about to be made.  The  *)
(* namespace holds the root and, under it, the method MTH_.                *)
(***************************************************************************)
Method(code, nargs, persist) ==
    [code |-> code, size |-> Len(code), args |-> nargs,
     named_objects_persist |-> persist]

\* objects 1 and 2: the Method object of MTH_ and the Named reference of
\* its node; object 3: the Integer the caller passes as an argument
InitHeap ==
    [i \in ObjectIds |->
        CASE i = 1 -> [FreeObject EXCEPT !.rc = 1, !.type = "METHOD", !.method = 2]
          [] i = 2 -> [FreeObject EXCEPT !.rc = 1, !.type = "REFERENCE",
                                         !.flags = "NAMED", !.inner_object = 1]
          [] i = 3 -> [FreeObject EXCEPT !.rc = 1, !.type = "INTEGER",
                                         !.integer = 1]
          [] OTHER -> FreeObject]

MethodNode == 2

InitNamespace ==
    [n \in NodeIds |->
        CASE n = RootNode -> [FreeNode EXCEPT !.used = TRUE, !.installed = TRUE]
          [] n = MethodNode -> [used |-> TRUE, name |-> SegMTH, parent |-> RootNode,
                                object |-> 2, installed |-> TRUE]
          [] OTHER -> FreeNode]

\* the args parameter: UACPI_NULL, or count objects
NullArgs == [null |-> TRUE, count |-> 0, objects |-> <<>>]
Args(objects) == [null |-> FALSE, count |-> Len(objects), objects |-> objects]

\* the calls made
Calls ==
    { [code |-> c, callee |-> ReturnStmt(One), nargs |-> 0, args |-> NullArgs,
       want_ret |-> TRUE, persist |-> p, callee_persist |-> FALSE,
       callee_nargs |-> 0] :
        c \in ControlFlowMethods \cup SkewedMethods \cup ScopeMethods,
        p \in BOOLEAN }
    \cup
    { [code |-> c, callee |-> e, nargs |-> 0, args |-> NullArgs,
       want_ret |-> TRUE, persist |-> p, callee_persist |-> q,
       callee_nargs |-> 0] :
        c \in CallerMethods, e \in CalleeMethods, p \in BOOLEAN, q \in BOOLEAN }
    \cup
    { [code |-> c, callee |-> e, nargs |-> 0, args |-> NullArgs,
       want_ret |-> TRUE, persist |-> FALSE, callee_persist |-> FALSE,
       callee_nargs |-> 1] :
        c \in ArgCallerMethods, e \in ArgMethods }
    \cup
    { [code |-> c, callee |-> Noop, nargs |-> n, args |-> a, want_ret |-> w,
       persist |-> FALSE, callee_persist |-> FALSE, callee_nargs |-> 0] :
        c \in ArgMethods, n \in {0, 1},
        a \in {NullArgs, Args(<<>>), Args(<<3>>)}, w \in BOOLEAN }

Init ==
    \E call \in Calls :
        /\ methods = << Method(call.code, call.nargs, call.persist),
                        Method(call.callee, call.callee_nargs,
                               call.callee_persist) >>
        /\ args = call.args
        /\ want_ret = call.want_ret
        /\ frames = <<>>
        /\ cur_frame = 0
        /\ cur_op = UACPI_AML_OP_Reserved
        /\ heap = InitHeap
        /\ ns = InitNamespace
        /\ ret = 0
        /\ skip_else = FALSE
        /\ out_ret = 0
        /\ st = "OK"
        /\ phase = "entry"
        /\ baseline = Cardinality(LiveObjects(InitHeap))
        /\ kept = {}
        /\ step = "none"
        /\ pre = Snapshot([frames |-> <<>>, cur_frame |-> 0], -1)
        /\ hev = NoHandler
        /\ clears = <<>>
        /\ pops = 0
        /\ unit = NoUnit

(***************************************************************************)
(* uacpi_execute_control_method, one action per stretch of it: the entry   *)
(* up to the driver loop, each of the ways round the driver loop, the      *)
(* label out, and execution_context_release with the return.               *)
(***************************************************************************)
Unchanged == UNCHANGED <<methods, args, want_ret, baseline, unit>>

RECURSIVE ref_args(_, _, _)
ref_args(M, objects, i) ==
    IF i >= M.methods[1].args THEN M
    ELSE ref_args([M EXCEPT !.frames[1].args[i] = objects[i + 1],
                            !.heap = uacpi_object_ref(@, objects[i + 1])],
                  objects, i + 1)

\* the checks of args against method->args
args_mismatch_unless_absent ==
    ~args.null /\ args.count # methods[1].args

args_mismatch ==
    IF args.null THEN methods[1].args # 0 ELSE args.count # methods[1].args

\* from the entry to the first round of the driver loop
Execute ==
    /\ phase = "entry"
    /\ LET obj == IF want_ret THEN AllocObjectId(heap) ELSE 0
           created == [Machine EXCEPT
                          !.heap = IF obj # 0
                                   THEN uacpi_create_object(@, obj, "UNINITIALIZED")
                                   ELSE @,
                          !.ret = obj]
           framed == [created EXCEPT !.frames = <<NewFrame>>, !.cur_frame = 1]
           bad_args == args_mismatch
           passed == IF args.null THEN framed
                     ELSE ref_args(framed, args.objects, 0)
       IN  IF want_ret /\ obj = 0
           THEN Commit(created) /\ st' = "OUT_OF_MEMORY" /\ phase' = "out"
           ELSE IF bad_args
           THEN Commit(framed) /\ st' = "INVALID_ARGUMENT" /\ phase' = "out"
           ELSE /\ Commit(frame_setup_base_scope(passed, 1, uacpi_namespace_root, 1))
                /\ st' = "OK"
                /\ phase' = "loop"
    /\ step' = "execute"
    /\ pre' = Snapshot(Machine, -1)
    /\ UNCHANGED out_ret
    /\ Unchanged

\* a round that ends the current block
EndBlock ==
    /\ phase = "loop"
    /\ ~ctx_has_non_preempted_op(Machine)
    /\ cur_frame # 0
    /\ maybe_end_block(Machine).ended
    /\ Commit(maybe_end_block(Machine).M)
    /\ step' = "end_block"
    /\ pre' = Snapshot(Machine, -1)
    /\ UNCHANGED <<st, phase, out_ret>>
    /\ Unchanged

\* a round that leaves the current frame
FramePop ==
    /\ phase = "loop"
    /\ ~ctx_has_non_preempted_op(Machine)
    /\ cur_frame # 0
    /\ ~maybe_end_block(Machine).ended
    /\ ~call_frame_has_code(Machine, CurFrame(Machine))
    /\ Commit(ctx_reload_post_ret(Machine))
    /\ step' = "frame_pop"
    /\ pre' = Snapshot(Machine, -1)
    /\ UNCHANGED <<st, phase, out_ret>>
    /\ Unchanged

\* the end of a round that called exec_op on M
AfterExec(r) ==
    IF r.crashed
    THEN Commit(r.M) /\ phase' = "crashed" /\ UNCHANGED st
    ELSE IF r.ret # "OK"
    THEN Commit(r.M) /\ st' = r.ret /\ phase' = "out"
    ELSE /\ Commit([r.M EXCEPT !.skip_else = FALSE])
         /\ st' = "OK"
         /\ UNCHANGED phase

\* a round that fetches an opcode and starts executing it
FetchAndExec ==
    /\ phase = "loop"
    /\ ~ctx_has_non_preempted_op(Machine)
    /\ cur_frame # 0
    /\ ~maybe_end_block(Machine).ended
    /\ call_frame_has_code(Machine, CurFrame(Machine))
    /\ LET got == get_op(Machine)
       IN  IF got.ret # "OK"
           THEN Commit(got.M) /\ st' = got.ret /\ phase' = "out"
           ELSE AfterExec(exec_op(got.M))
    /\ step' = "fetch"
    /\ pre' = Snapshot(Machine,
                       AmlRead(methods[CurFrame(Machine).method],
                               CurFrame(Machine).code_offset))
    /\ UNCHANGED out_ret
    /\ Unchanged

\* a round that goes on with an op whose dynamic argument has arrived, or
\* with a method call whose callee has returned
ResumeExec ==
    /\ phase = "loop"
    /\ ctx_has_non_preempted_op(Machine)
    /\ AfterExec(exec_op(Machine))
    /\ step' = "resume"
    /\ pre' = Snapshot(Machine, -1)
    /\ UNCHANGED out_ret
    /\ Unchanged

\* the round that finds no frame and breaks out of the loop
LoopExit ==
    /\ phase = "loop"
    /\ ~ctx_has_non_preempted_op(Machine)
    /\ cur_frame = 0
    /\ Commit(Machine)
    /\ phase' = "out"
    /\ step' = "exit"
    /\ pre' = Snapshot(Machine, -1)
    /\ UNCHANGED <<st, out_ret>>
    /\ Unchanged

\* the label out: hand ctx->ret to the caller
Out ==
    /\ phase = "out"
    /\ IF want_ret /\ ret = 0
       THEN Commit(Machine) /\ phase' = "crashed" /\ UNCHANGED out_ret
       ELSE IF want_ret /\ heap[ret].type # "UNINITIALIZED"
       THEN /\ Commit([Machine EXCEPT !.heap = uacpi_object_ref(@, ret)])
            /\ out_ret' = ret
            /\ phase' = "release"
       ELSE Commit(Machine) /\ phase' = "release" /\ UNCHANGED out_ret
    /\ step' = "out"
    /\ pre' = Snapshot(Machine, -1)
    /\ UNCHANGED st
    /\ Unchanged

\* execution_context_release and the return of st
Release ==
    /\ phase = "release"
    /\ Commit(execution_context_release(Machine))
    /\ phase' = "returned"
    /\ step' = "release"
    /\ pre' = Snapshot(Machine, -1)
    /\ UNCHANGED <<st, out_ret>>
    /\ Unchanged

Next ==
    \/ Execute
    \/ EndBlock
    \/ FramePop
    \/ FetchAndExec
    \/ ResumeExec
    \/ LoopExit
    \/ Out
    \/ Release

Spec == Init /\ [][Next]_vars

(***************************************************************************)
(* The functions of the interpreter applied on their own.  An initial      *)
(* state holds the arguments of one function, in a frame set up the way    *)
(* uacpi_execute_control_method sets it up, and an action applies the      *)
(* function to them.                                                       *)
(***************************************************************************)
\* a name string: a root character or parent prefixes, then one segment,
\* a dual name, a multi name or a NullName
NamePath(root, ups, marker, segs) ==
    [root |-> root, ups |-> ups, marker |-> marker, segs |-> segs]

RECURSIVE Flatten(_)
Flatten(segs) ==
    IF segs = <<>> THEN <<>> ELSE Head(segs) \o Flatten(Tail(segs))

NameBytes(p) ==
    (IF p.root THEN <<RootChar>> ELSE <<>>)
    \o [i \in 1 .. p.ups |-> ParentPrefixChar]
    \o (CASE p.marker = "none" -> <<>>
          [] p.marker = "dual" -> <<UACPI_DUAL_NAME_PREFIX>>
          [] p.marker = "multi" -> <<UACPI_MULTI_NAME_PREFIX, Len(p.segs)>>
          [] p.marker = "null" -> <<UACPI_NULL_NAME>>)
    \o Flatten(p.segs)

NamePaths ==
    { NamePath(pfx[1], pfx[2], body[1], body[2]) :
        pfx \in {<<FALSE, 0>>, <<TRUE, 0>>, <<FALSE, 1>>, <<FALSE, 2>>},
        body \in { <<"none", <<SegFOO>>>>, <<"none", <<SegBAR>>>>,
                   <<"none", <<SegMTH>>>>,
                   <<"dual", <<SegMTH, SegFOO>>>>, <<"dual", <<SegMTH, SegBAR>>>>,
                   <<"dual", <<SegBAR, SegFOO>>>>, <<"dual", <<SegFOO, SegBAR>>>>,
                   <<"multi", <<SegFOO>>>>, <<"multi", <<SegMTH, SegBAR>>>>,
                   <<"multi", <<SegMTH, SegBAR, SegFOO>>>>,
                   <<"null", <<>>>> } }

\* the namespace \MTH_.BAR_ with nodes named FOO_ under the nodes of foo_at
ScopeNode == MethodNode + 1

UnitNamespace(foo_at) ==
    [n \in NodeIds |->
        CASE n \in {RootNode, MethodNode} -> InitNamespace[n]
          [] n = ScopeNode -> [used |-> TRUE, name |-> SegBAR,
                               parent |-> MethodNode, object |-> 0,
                               installed |-> TRUE]
          [] n > ScopeNode /\ n - ScopeNode <= Len(foo_at) ->
                [used |-> TRUE, name |-> SegFOO,
                 parent |-> foo_at[n - ScopeNode], object |-> 0,
                 installed |-> TRUE]
          [] OTHER -> FreeNode]

FooPlacements ==
    { <<>>, <<RootNode>>, <<MethodNode>>, <<ScopeNode>>,
      <<RootNode, MethodNode>>, <<RootNode, ScopeNode>> }

\* the state in which a function is applied: one frame of a method with the
\* code, executed in the scope
UnitStateWith(code, nargs, offset, scope, namespace, objects, u) ==
    /\ methods = << Method(code, 0, FALSE), Method(Noop, nargs, FALSE) >>
    /\ args = NullArgs
    /\ want_ret = FALSE
    /\ frames = frame_setup_base_scope(
                    [methods |-> << Method(code, 0, FALSE) >>,
                     frames |-> <<[NewFrame EXCEPT !.code_offset = offset]>>],
                    1, scope, 1).frames
    /\ cur_frame = 1
    /\ cur_op = UACPI_AML_OP_Reserved
    /\ heap = objects
    /\ ns = namespace
    /\ ret = 0
    /\ skip_else = FALSE
    /\ out_ret = 0
    /\ st = "OK"
    /\ phase = "unit"
    /\ baseline = Cardinality(LiveObjects(objects))
    /\ kept = {}
    /\ step = "none"
    /\ pre = Snapshot([frames |-> <<>>, cur_frame |-> 0], -1)
    /\ hev = NoHandler
    /\ clears = <<>>
    /\ pops = 0
    /\ unit = u

UnitStateAt(code, offset, scope, namespace, objects, u) ==
    UnitStateWith(code, 0, offset, scope, namespace, objects, u)

UnitState(code, scope, namespace, objects, u) ==
    UnitStateAt(code, 0, scope, namespace, objects, u)

\* resolve_name_string(frame, behavior, &node), node being UACPI_NULL; the
\* name string follows a Noop that has been executed
ResolveInputs ==
    [path : NamePaths, scope : {RootNode, MethodNode, ScopeNode},
     foo_at : FooPlacements, behavior : {"CREATE", "FIND"}]

ResolveInit ==
    \E in \in ResolveInputs :
        UnitStateAt(Noop \o NameBytes(in.path) \o Noop, Len(Noop), in.scope,
                    UnitNamespace(in.foo_at), InitHeap,
                    [fn |-> "resolve_name_string", in |-> in, done |-> FALSE,
                     ret |-> "OK", node |-> 0, crashed |-> FALSE])

Resolved(r) ==
    /\ Commit([Machine EXCEPT !.ns = r.ns,
                              !.frames[1].code_offset = r.code_offset])
    /\ unit' = [unit EXCEPT !.done = TRUE,
                            !.ret = r.ret,
                            !.node = IF r.set_node THEN r.node ELSE @,
                            !.crashed = r.crashed]

ResolveNameString ==
    /\ phase = "unit"
    /\ unit.fn = "resolve_name_string"
    /\ ~unit.done
    /\ Resolved(resolve_name_string(Machine, frames[1], unit.in.behavior))
    /\ step' = "resolve_name_string"
    /\ UNCHANGED <<methods, args, want_ret, baseline, out_ret, st, phase, pre>>

\* the namestring micro-ops of exec_op: the op CREATE_NAMESTRING,
\* EXISTING_NAMESTRING or EXISTING_NAMESTRING_OR_NULL of the opcode code,
\* prev_op being what the preempted op before it waits for, 0 if there is
\* none
NameStringOps ==
    { UACPI_PARSE_OP_CREATE_NAMESTRING, UACPI_PARSE_OP_EXISTING_NAMESTRING,
      UACPI_PARSE_OP_EXISTING_NAMESTRING_OR_NULL }

NameStringInputs ==
    [prev_op : {0} \cup DynamicArgOps,
     op : NameStringOps,
     code : { UACPI_AML_OP_ExternalOp, UACPI_AML_OP_InternalOpNameString,
              UACPI_AML_OP_ScopeOp, UACPI_AML_OP_NameOp },
     foo_at : {<<>>, <<RootNode>>}]

NameStringInit ==
    \E in \in NameStringInputs :
        /\ UnitState(SegFOO \o Noop, RootNode, UnitNamespace(in.foo_at),
                     InitHeap,
                     [fn |-> "namestring", in |-> in, done |-> FALSE,
                      ret |-> "OK", node |-> 0, crashed |-> FALSE])

\* the op-context of the opcode, with the item the micro-op has generated
NameStringContext(code) ==
    [NewOpContext(code) EXCEPT
        !.pc = 1,
        !.items = << [NullItem EXCEPT !.type = ITEM_NAMESPACE_NODE] >>]

NameStringDone(r) ==
    /\ Commit(r.M)
    /\ unit' = [unit EXCEPT !.done = TRUE,
                            !.ret = r.ret,
                            !.node = CurOpCtx(r.M).items[1].node,
                            !.crashed = r.crashed]

NameStringOp ==
    /\ phase = "unit"
    /\ unit.fn = "namestring"
    /\ ~unit.done
    /\ NameStringDone(
           parse_op_namestring(
               [Machine EXCEPT !.frames[1].pending_ops =
                                   <<NameStringContext(unit.in.code)>>],
               1, unit.in.prev_op, unit.in.op))
    /\ step' = "namestring"
    /\ UNCHANGED <<methods, args, want_ret, baseline, out_ret, st, phase, pre>>

\* op_typecheck: what the preempted op waits for and the properties of the
\* opcode of the op that starts
OpProperties == {"SIMPLE_NAME", "SUPERNAME", "TARGET", "TERM_ARG"}

TypecheckInputs ==
    [waiting : UACPI_PARSE_OP_END .. UACPI_PARSE_OP_TODO,
     props : SUBSET OpProperties]

TypecheckInit ==
    \E in \in TypecheckInputs :
        UnitState(Noop, RootNode, InitNamespace, InitHeap,
                  [fn |-> "op_typecheck", in |-> in, done |-> FALSE,
                   ret |-> "OK"])

Typecheck ==
    /\ phase = "unit"
    /\ unit.fn = "op_typecheck"
    /\ ~unit.done
    /\ unit' = [unit EXCEPT
                   !.done = TRUE,
                   !.ret = op_typecheck_props(unit.in.waiting, unit.in.props)]
    /\ step' = "op_typecheck"
    /\ UNCHANGED <<methods, frames, cur_frame, cur_op, heap, ns, ret,
                   skip_else, args, want_ret, out_ret, st, phase, baseline,
                   kept, pre, hev, clears, pops>>

\* handle_copy_object_or_store(dst, src): dst heads a chain of References
\* that ends in an object, src is an object or a Local that holds it
TargetTails ==
    { <<>>, <<"PKG_INDEX">>, <<"REFOF", "LOCAL">>, <<"REFOF", "NAMED">> }

TargetChains ==
    { <<k>> \o tail : k \in {"LOCAL", "ARG", "PKG_INDEX", "NAMED"},
                       tail \in TargetTails }
    \cup { <<"REFOF", "LOCAL">>, <<"REFOF", "NAMED">>,
           <<"REFOF", "REFOF", "LOCAL">> }

IntegerObject(v) == [FreeObject EXCEPT !.rc = 1, !.type = "INTEGER", !.integer = v]

StringObject(text) ==
    [FreeObject EXCEPT !.rc = 1, !.type = "STRING", !.buffer = text \o <<0>>]

BufferObject(data) == [FreeObject EXCEPT !.rc = 1, !.type = "BUFFER", !.buffer = data]

BottomObjects ==
    { IntegerObject(7), StringObject(<<65, 66, 67, 68>>), BufferObject(<<1, 2>>),
      [FreeObject EXCEPT !.rc = 1] }

SourceObjects ==
    { IntegerObject(258), StringObject(<<120, 121>>), BufferObject(<<5, 6, 7>>),
      BufferObject(<<1, 0, 0, 0, 0, 0, 0, 0, 9>>) }

\* targets that are no Reference: the objects above, the null target, the
\* Debug object, a BufferIndex and a Method
TargetObjects ==
    BottomObjects
    \cup { IntegerObject(0),
           [FreeObject EXCEPT !.rc = 1, !.type = "DEBUG"],
           [FreeObject EXCEPT !.rc = 1, !.type = "BUFFER_INDEX",
                              !.buffer_index.idx = 1],
           [FreeObject EXCEPT !.rc = 1, !.type = "METHOD"] }

StoreInputs ==
    [code : {UACPI_AML_OP_StoreOp, UACPI_AML_OP_CopyObjectOp},
     chain : TargetChains, bottom : BottomObjects,
     source : SourceObjects, wrapped : BOOLEAN]
    \cup
    [code : {UACPI_AML_OP_StoreOp, UACPI_AML_OP_CopyObjectOp},
     chain : {<<>>}, bottom : TargetObjects,
     source : SourceObjects, wrapped : BOOLEAN]

\* the objects of the input: the chain from object 1 on, then the bottom
\* object, which its owner holds too, then the source, the Local around it
\* and the Buffer a BufferIndex points into
StoreBottom(in) == Len(in.chain) + 1

StoreSource(in) == Len(in.chain) + 2

StoreSrc(in) == IF in.wrapped THEN Len(in.chain) + 3 ELSE Len(in.chain) + 2

StoreBacking(in) == Len(in.chain) + 4

StoreHeap(in) ==
    [i \in ObjectIds |->
        CASE i <= Len(in.chain) ->
                [FreeObject EXCEPT !.rc = 1, !.type = "REFERENCE",
                                   !.flags = in.chain[i], !.inner_object = i + 1]
          [] i = StoreBottom(in) ->
                [in.bottom EXCEPT
                    !.rc = 2,
                    !.buffer_index.buffer = IF in.bottom.type = "BUFFER_INDEX"
                                            THEN StoreBacking(in) ELSE 0]
          [] i = StoreSource(in) -> in.source
          [] i = StoreSource(in) + 1 /\ in.wrapped ->
                [FreeObject EXCEPT !.rc = 1, !.type = "REFERENCE",
                                   !.flags = "LOCAL",
                                   !.inner_object = StoreSource(in)]
          [] i = StoreBacking(in) /\ in.bottom.type = "BUFFER_INDEX" ->
                BufferObject(<<17, 34, 51>>)
          [] OTHER -> FreeObject]

StoreInit ==
    \E in \in StoreInputs :
        UnitState(Noop, RootNode, InitNamespace, StoreHeap(in),
                  [fn |-> "handle_copy_object_or_store", in |-> in,
                   done |-> FALSE, ret |-> "OK"])

StoreDone(r) ==
    /\ heap' = r.heap
    /\ unit' = [unit EXCEPT !.done = TRUE, !.ret = r.ret]
    /\ step' = "handle_copy_object_or_store"
    /\ UNCHANGED <<methods, frames, cur_frame, cur_op, ns, ret,
                   skip_else, args, want_ret, out_ret, st, phase, baseline,
                   kept, pre, hev, clears, pops>>

CopyObjectOrStore ==
    /\ phase = "unit"
    /\ unit.fn = "handle_copy_object_or_store"
    /\ ~unit.done
    /\ StoreDone(copy_object_or_store(heap, unit.in.code, 1, StoreSrc(unit.in)))

\* object_assign_with_implicit_cast(dst, src): dst is object 1, src object
\* 2, and object 3 is the Buffer a BufferIndex points into or the Integer a
\* Reference wraps
CastDestinations ==
    { IntegerObject(7), StringObject(<<65, 66, 67, 68>>), StringObject(<<>>),
      BufferObject(<<1, 2>>), BufferObject(<<>>),
      BufferObject(<<1, 2, 3, 4, 5, 6, 7, 8, 9, 10>>) }
    \cup { [FreeObject EXCEPT !.rc = 1, !.type = "BUFFER_INDEX",
                              !.buffer_index = [idx |-> i, buffer |-> 3]] :
               i \in 0 .. 2 }

CastSources ==
    SourceObjects
    \cup { IntegerObject(0), StringObject(<<>>), BufferObject(<<>>),
           [FreeObject EXCEPT !.rc = 1],
           [FreeObject EXCEPT !.rc = 1, !.type = "DEBUG"],
           [FreeObject EXCEPT !.rc = 1, !.type = "REFERENCE",
                              !.flags = "REFOF", !.inner_object = 3] }

CastInputs == [dst : CastDestinations, src : CastSources]

CastHeap(in) ==
    [i \in ObjectIds |->
        CASE i = 1 -> in.dst
          [] i = 2 -> in.src
          [] i = 3 /\ in.dst.type = "BUFFER_INDEX" -> BufferObject(<<17, 34, 51>>)
          [] i = 3 /\ in.src.type = "REFERENCE" -> IntegerObject(5)
          [] OTHER -> FreeObject]

CastInit ==
    \E in \in CastInputs :
        UnitState(Noop, RootNode, InitNamespace, CastHeap(in),
                  [fn |-> "object_assign_with_implicit_cast", in |-> in,
                   done |-> FALSE, ret |-> "OK"])

CastDone(r) ==
    /\ heap' = r.heap
    /\ unit' = [unit EXCEPT !.done = TRUE, !.ret = r.ret]
    /\ step' = "object_assign_with_implicit_cast"
    /\ UNCHANGED <<methods, frames, cur_frame, cur_op, ns, ret,
                   skip_else, args, want_ret, out_ret, st, phase, baseline,
                   kept, pre, hev, clears, pops>>

AssignWithImplicitCast ==
    /\ phase = "unit"
    /\ unit.fn = "object_assign_with_implicit_cast"
    /\ ~unit.done
    /\ CastDone(object_assign_with_implicit_cast(heap, 1, 2))

\* a buffer field written and then read: object 1 is the BufferField,
\* object 2 the source of the Store to it, object 3 the Buffer it is a view
\* into
MaxBitIndex == 16

MaxBitLength == 72

BackingSize == 32

BackingData ==
    { [i \in 1 .. BackingSize |-> 0], [i \in 1 .. BackingSize |-> 255],
      [i \in 1 .. BackingSize |-> IF i % 2 = 1 THEN 165 ELSE 90] }

FieldSources ==
    { BufferObject([i \in 1 .. 10 |-> 255]),
      BufferObject([i \in 1 .. 10 |-> IF i % 2 = 1 THEN 90 ELSE 165]),
      BufferObject(<<129>>), IntegerObject(2748) }

FieldInputs ==
    [bit_index : 0 .. MaxBitIndex, bit_length : 1 .. MaxBitLength,
     backing : BackingData, src : FieldSources]
    \cup
    { in \in [bit_index : 0 .. MaxBitIndex, bit_length : 1 .. MaxBitLength,
              backing : {<<0, 0, 0, 0>>},
              src : {IntegerObject(2748)}] :
         in.bit_index + in.bit_length <= 8 * Len(in.backing) }

FieldHeap(in) ==
    [i \in ObjectIds |->
        CASE i = 1 -> [FreeObject EXCEPT
                          !.rc = 1, !.type = "BUFFER_FIELD",
                          !.buffer_field = [backing |-> 3,
                                            bit_index |-> in.bit_index,
                                            bit_length |-> in.bit_length,
                                            force_buffer |-> TRUE]]
          [] i = 2 -> in.src
          [] i = 3 -> [BufferObject(in.backing) EXCEPT !.rc = 2]
          [] OTHER -> FreeObject]

FieldInit ==
    \E in \in FieldInputs :
        UnitState(Noop, RootNode, InitNamespace, FieldHeap(in),
                  [fn |-> "buffer_field", in |-> in, stage |-> "created",
                   ret |-> "OK", out |-> <<>>])

FieldDone(u) ==
    /\ unit' = u
    /\ step' = "buffer_field"
    /\ UNCHANGED <<methods, frames, cur_frame, cur_op, ns, ret,
                   skip_else, args, want_ret, out_ret, st, phase, baseline,
                   kept, pre, hev, clears, pops>>

\* Store(src, field): object_assign_with_implicit_cast onto the BufferField
WriteBufferField ==
    /\ phase = "unit"
    /\ unit.fn = "buffer_field"
    /\ unit.stage = "created"
    /\ heap' = object_assign_with_implicit_cast(heap, 1, 2).heap
    /\ FieldDone([unit EXCEPT
                     !.stage = "written",
                     !.ret = object_assign_with_implicit_cast(heap, 1, 2).ret])

\* handle_field_read: do_read_buffer_field into zeroed memory
ReadBufferField ==
    /\ phase = "unit"
    /\ unit.fn = "buffer_field"
    /\ unit.stage = "written"
    /\ heap' = heap
    /\ FieldDone([unit EXCEPT
                     !.stage = "read",
                     !.out = do_read_buffer_field(heap[3].buffer,
                                                  heap[1].buffer_field)])

\* handle_create_buffer_field applied to the operands of a Create*Field op
\* over a buffer of a few bytes; the index operands include the ones whose
\* product with 8, or whose sum with the length, passes 2^64
CreateFieldOps ==
    {UACPI_AML_OP_CreateFieldOp, UACPI_AML_OP_CreateBitFieldOp,
     UACPI_AML_OP_CreateByteFieldOp, UACPI_AML_OP_CreateWordFieldOp,
     UACPI_AML_OP_CreateDWordFieldOp, UACPI_AML_OP_CreateQWordFieldOp}

IndexOperands ==
    {IntegerBytes(v, 8) : v \in {0, 1, 2, 3, 4, 5, 8, 24, 31, 32, 33}}
    \cup {<<0, 0, 0, 0, 0, 0, 0, 32>>, <<1, 0, 0, 0, 0, 0, 0, 32>>,
          <<255, 255, 255, 255, 255, 255, 255, 31>>,
          <<240, 255, 255, 255, 255, 255, 255, 255>>,
          <<248, 255, 255, 255, 255, 255, 255, 255>>,
          <<255, 255, 255, 255, 255, 255, 255, 255>>}

LengthOperands ==
    {IntegerBytes(v, 8) : v \in {0, 1, 7, 8, 16, 32, 33}}
    \cup {<<255, 255, 255, 255, 0, 0, 0, 0>>, <<0, 0, 0, 0, 1, 0, 0, 0>>,
          <<0, 0, 0, 0, 0, 0, 0, 128>>}

BufferSizes == {1, 4, 8}

CreateFieldInputs ==
    [code : {UACPI_AML_OP_CreateFieldOp}, idx : IndexOperands,
     len : LengthOperands, size : BufferSizes]
    \cup [code : CreateFieldOps \ {UACPI_AML_OP_CreateFieldOp},
          idx : IndexOperands, len : {IntegerBytes(0, 8)},
          size : BufferSizes]

CreateFieldInit ==
    \E in \in CreateFieldInputs :
        UnitState(Noop, RootNode, InitNamespace, InitHeap,
                  [fn |-> "handle_create_buffer_field", in |-> in,
                   done |-> FALSE, ret |-> "OK", bound |-> FALSE,
                   bit_index |-> IntegerBytes(0, 8),
                   bit_length |-> IntegerBytes(0, 8)])

CreateBufferField ==
    /\ phase = "unit"
    /\ unit.fn = "handle_create_buffer_field"
    /\ ~unit.done
    /\ LET r == handle_create_buffer_field(unit.in.code, unit.in.idx,
                                           unit.in.len, unit.in.size)
       IN  unit' = [unit EXCEPT !.done = TRUE, !.ret = r.ret,
                                !.bound = r.bound,
                                !.bit_index = r.bit_index,
                                !.bit_length = r.bit_length]
    /\ step' = "handle_create_buffer_field"
    /\ UNCHANGED <<methods, frames, cur_frame, cur_op, ns, heap, ret,
                   skip_else, args, want_ret, out_ret, st, phase, baseline,
                   kept, pre, hev, clears, pops>>

\* handle_buffer applied to a method whose code ends with the initializers:
\* object 1 is the Buffer under construction, still without data
BufferCodes == {<<17, 34, 51, 68, 85>>, <<0, 255, 0, 1, 128>>}

DeclaredSizes ==
    {IntegerBytes(v, 8) : v \in {0, 1, 2, 3, 4, 7}}
    \cup {<<1, 0, 0, 224, 0, 0, 0, 0>>, <<0, 0, 0, 0, 1, 0, 0, 0>>}

BufferInputs ==
    {in \in [code : BufferCodes, aml_offset : 0 .. 5, pkg_end : 0 .. 6,
             declared_size : DeclaredSizes] :
        in.aml_offset <= in.pkg_end }

BufferInit ==
    \E in \in BufferInputs :
        UnitState(in.code, RootNode, InitNamespace,
                  [i \in ObjectIds |->
                      IF i = 1 THEN BufferObject(<<>>) ELSE FreeObject],
                  [fn |-> "handle_buffer", in |-> in, done |-> FALSE,
                   ret |-> "OK"])

HandleBuffer ==
    /\ phase = "unit"
    /\ unit.fn = "handle_buffer"
    /\ ~unit.done
    /\ LET r == handle_buffer(heap, methods[1].code, unit.in.pkg_end,
                              unit.in.aml_offset, unit.in.declared_size, 1)
       IN  /\ heap' = r.heap
           /\ unit' = [unit EXCEPT !.done = TRUE, !.ret = r.ret]
    /\ step' = "handle_buffer"
    /\ UNCHANGED <<methods, frames, cur_frame, cur_op, ns, ret,
                   skip_else, args, want_ret, out_ret, st, phase, baseline,
                   kept, pre, hev, clears, pops>>

\* handle_package applied to the initializers of a package: the code holds
\* the name strings \_SB_ at offset 0, ^ABCD.EFGH at 5, \ at 15, WXYZ as a
\* multi name path of one segment at 17 and a name cut short at 23
PackageCode ==
    <<92, 95, 83, 66, 95, 94, 46, 65, 66, 67, 68, 69, 70, 71, 72, 92, 0,
      47, 1, 87, 88, 89, 90, 80, 81, 82>>

\* an initializer: its kind, the offset of its bytes and, for a name, the
\* dotted name it spells (none for the name cut short)
PackageElements ==
    {[kind |-> "integer", offset |-> 0, name |-> <<>>],
     [kind |-> "string", offset |-> 0, name |-> <<>>],
     [kind |-> "local", offset |-> 0, name |-> <<>>],
     [kind |-> "named", offset |-> 0, name |-> <<92, 95, 83, 66, 95>>],
     [kind |-> "null", offset |-> 5,
      name |-> <<94, 65, 66, 67, 68, 46, 69, 70, 71, 72>>],
     [kind |-> "null", offset |-> 15, name |-> <<92>>],
     [kind |-> "null", offset |-> 17, name |-> <<87, 88, 89, 90>>],
     [kind |-> "null", offset |-> 23, name |-> <<>>]}

PackageInputs ==
    {in \in [op : {UACPI_AML_OP_PackageOp, UACPI_AML_OP_VarPackageOp},
             num_elements : {IntegerBytes(v, 8) : v \in 0 .. 3}
                            \cup {<<1, 0, 0, 224, 0, 0, 0, 0>>},
             elems : UNION {[1 .. n -> PackageElements] : n \in 0 .. 3}] :
        /\ in.op = UACPI_AML_OP_PackageOp
               => ~GreaterBytes(in.num_elements, SizeLimit)
        /\ in.op = UACPI_AML_OP_VarPackageOp
               => in.num_elements \notin {IntegerBytes(0, 8), IntegerBytes(3, 8)}}

\* the object of the j-th initializer is object 1 + j, the object that the
\* references among them refer to is the last one
PackageTarget == MaxObjects

ElementObject(e) ==
    CASE e.kind = "integer" -> IntegerObject(258)
      [] e.kind = "string" -> StringObject(<<120, 121>>)
      [] e.kind = "local" ->
            [FreeObject EXCEPT !.rc = 1, !.type = "REFERENCE",
                               !.flags = "LOCAL",
                               !.inner_object = PackageTarget]
      [] e.kind = "named" ->
            [FreeObject EXCEPT !.rc = 1, !.type = "REFERENCE",
                               !.flags = "NAMED",
                               !.inner_object = PackageTarget]
      [] OTHER -> FreeObject

PackageHeap(in) ==
    [i \in ObjectIds |->
        CASE i = 1 -> [FreeObject EXCEPT !.rc = 1, !.type = "PACKAGE"]
          [] i \in 2 .. (Len(in.elems) + 1) -> ElementObject(in.elems[i - 1])
          [] i = PackageTarget ->
                [IntegerObject(7) EXCEPT !.rc =
                    1 + Cardinality({j \in 1 .. Len(in.elems) :
                            in.elems[j].kind \in {"local", "named"}})]
          [] OTHER -> FreeObject]

PackageItems(in) ==
    [j \in 1 .. Len(in.elems) |->
        [offset |-> in.elems[j].offset,
         obj |-> IF in.elems[j].kind = "null" THEN 0 ELSE j + 1]]

PackageInit ==
    \E in \in PackageInputs :
        UnitState(PackageCode, RootNode, InitNamespace, PackageHeap(in),
                  [fn |-> "handle_package", in |-> in, done |-> FALSE,
                   ret |-> "OK", items |-> PackageItems(in),
                   ub |-> "none"])

\* a path written past its allocation is undefined behaviour: the byte
\* lands in memory of something else and the build goes on, or the write
\* faults
HandlePackage ==
    /\ phase = "unit"
    /\ unit.fn = "handle_package"
    /\ ~unit.done
    /\ LET r == handle_package(heap, methods[1].code, unit.in.op,
                               unit.in.num_elements, unit.items, 1)
       IN  \E ub \in IF r.overrun THEN {"stray_write", "fault"}
                      ELSE {"none"} :
               /\ heap' = r.heap
               /\ unit' = [unit EXCEPT !.done = TRUE, !.ret = r.ret,
                                        !.items = r.items, !.ub = ub]
    /\ step' = "handle_package"
    /\ UNCHANGED <<methods, frames, cur_frame, cur_op, ns, ret,
                   skip_else, args, want_ret, out_ret, st, phase, baseline,
                   kept, pre, hev, clears, pops>>

\* Index and DerefOf applied to a package: object 1 is the Package, objects
\* 2 and up are the objects of its slots, the last object is the Integer
\* that the slots holding a RefOf Reference refer to
SlotKinds == {"integer", "string", "uninitialized", "refof"}

MaxSlots == 2

MaxIndexOps == 3

IndexTarget == MaxObjects

SlotObject(kind) ==
    CASE kind = "integer" -> IntegerObject(7)
      [] kind = "string" -> StringObject(<<97, 98>>)
      [] kind = "refof" ->
            [FreeObject EXCEPT !.rc = 1, !.type = "REFERENCE",
                               !.flags = "REFOF",
                               !.inner_object = IndexTarget]
      [] OTHER -> [FreeObject EXCEPT !.rc = 1]

IndexInputs == UNION {[1 .. n -> SlotKinds] : n \in 0 .. MaxSlots}

IndexHeap(in) ==
    [i \in ObjectIds |->
        CASE i = 1 -> [FreeObject EXCEPT !.rc = 1, !.type = "PACKAGE",
                          !.package = [j \in 1 .. Len(in) |-> j + 1]]
          [] i \in 2 .. (Len(in) + 1) -> SlotObject(in[i - 1])
          [] i = IndexTarget ->
                [IntegerObject(9) EXCEPT !.rc =
                    1 + Cardinality({j \in 1 .. Len(in) : in[j] = "refof"})]
          [] OTHER -> FreeObject]

IndexInit ==
    \E in \in IndexInputs :
        UnitState(Noop, RootNode, InitNamespace, IndexHeap(in),
                  [fn |-> "handle_index", in |-> in, ret |-> "OK",
                   results |-> <<>>, deref |-> [idx |-> 0, obj |-> 0],
                   last |-> "none", idx |-> 0, before |-> IndexHeap(in)])

\* Index(pkg, idx); results keeps the index and the object of every Index
\* that returned OK
HandleIndex ==
    /\ phase = "unit"
    /\ unit.fn = "handle_index"
    /\ Len(unit.results) < MaxIndexOps
    /\ \E idx \in 0 .. MaxSlots :
           LET r == handle_index(heap, 1, idx)
           IN  /\ heap' = r.heap
               /\ unit' = [unit EXCEPT
                      !.ret = r.ret, !.last = "index", !.idx = idx,
                      !.before = heap,
                      !.results = IF r.ret = "OK"
                                  THEN Append(@, [idx |-> idx, obj |-> r.obj])
                                  ELSE @]
    /\ step' = "handle_index"
    /\ UNCHANGED <<methods, frames, cur_frame, cur_op, ns, ret,
                   skip_else, args, want_ret, out_ret, st, phase, baseline,
                   kept, pre, hev, clears, pops>>

\* DerefOf of the result of one of the Index operations, into a fresh object
HandleDerefOf ==
    /\ phase = "unit"
    /\ unit.fn = "handle_index"
    /\ unit.deref.obj = 0
    /\ \E k \in 1 .. Len(unit.results) :
           LET dst == AllocObjectId(heap)
               r == handle_ref_or_deref_of(
                        uacpi_create_object(heap, dst, "UNINITIALIZED"),
                        UACPI_AML_OP_DerefOfOp, unit.results[k].obj, dst)
           IN  /\ heap' = r.heap
               /\ unit' = [unit EXCEPT
                      !.ret = r.ret, !.last = "deref", !.before = heap,
                      !.deref = [idx |-> unit.results[k].idx, obj |-> dst]]
    /\ step' = "handle_ref_or_deref_of"
    /\ UNCHANGED <<methods, frames, cur_frame, cur_op, ns, ret,
                   skip_else, args, want_ret, out_ret, st, phase, baseline,
                   kept, pre, hev, clears, pops>>


\* RefOf and then DerefOf applied to an object x: object 1 is x, object 2 a
\* Local reference to it when the operand of RefOf is one, object 3 the
\* Buffer that a BufferIndex x points into
RefOfKinds ==
    {"integer", "string", "buffer", "uninitialized", "package",
     "buffer_index"}

RefOfObject(kind) ==
    CASE kind = "integer" -> IntegerObject(258)
      [] kind = "string" -> StringObject(<<97, 98>>)
      [] kind = "buffer" -> BufferObject(<<5, 6, 7>>)
      [] kind = "package" ->
            [FreeObject EXCEPT !.rc = 1, !.type = "PACKAGE",
                               !.package = <<MaxObjects>>]
      [] kind = "buffer_index" ->
            [FreeObject EXCEPT !.rc = 1, !.type = "BUFFER_INDEX",
                               !.buffer_index = [idx |-> 1, buffer |-> 3]]
      [] OTHER -> [FreeObject EXCEPT !.rc = 1]

RefOfInputs == [kind : RefOfKinds, wrapped : BOOLEAN]

RefOfHeap(in) ==
    [i \in ObjectIds |->
        CASE i = 1 -> [RefOfObject(in.kind) EXCEPT
                          !.rc = IF in.wrapped THEN 2 ELSE 1]
          [] i = 2 /\ in.wrapped ->
                [FreeObject EXCEPT !.rc = 1, !.type = "REFERENCE",
                                   !.flags = "LOCAL", !.inner_object = 1]
          [] i = 3 /\ in.kind = "buffer_index" ->
                [BufferObject(<<17, 34>>) EXCEPT !.rc = 2]
          [] i = MaxObjects /\ in.kind = "package" -> IntegerObject(9)
          [] OTHER -> FreeObject]

RefOfInit ==
    \E in \in RefOfInputs :
        UnitState(Noop, RootNode, InitNamespace, RefOfHeap(in),
                  [fn |-> "handle_ref_or_deref_of", in |-> in,
                   stage |-> "created", ret |-> "OK", ref |-> 0,
                   deref |-> 0])

\* RefOf(x): the result is a fresh Reference of kind RefOf
HandleRefOf ==
    /\ phase = "unit"
    /\ unit.fn = "handle_ref_or_deref_of"
    /\ unit.stage = "created"
    /\ LET dst == AllocObjectId(heap)
           r == handle_ref_or_deref_of(
                    [uacpi_create_object(heap, dst, "REFERENCE")
                         EXCEPT ![dst].flags = "REFOF"],
                    UACPI_AML_OP_RefOfOp,
                    IF unit.in.wrapped THEN 2 ELSE 1, dst)
       IN  /\ heap' = r.heap
           /\ unit' = [unit EXCEPT !.stage = "refof", !.ret = r.ret,
                                   !.ref = dst]
    /\ step' = "handle_ref_or_deref_of"
    /\ UNCHANGED <<methods, frames, cur_frame, cur_op, ns, ret,
                   skip_else, args, want_ret, out_ret, st, phase, baseline,
                   kept, pre, hev, clears, pops>>

\* DerefOf of the result of the RefOf, into a fresh object
HandleDerefOfRefOf ==
    /\ phase = "unit"
    /\ unit.fn = "handle_ref_or_deref_of"
    /\ unit.stage = "refof"
    /\ LET dst == AllocObjectId(heap)
           r == handle_ref_or_deref_of(
                    uacpi_create_object(heap, dst, "UNINITIALIZED"),
                    UACPI_AML_OP_DerefOfOp, unit.ref, dst)
       IN  /\ heap' = r.heap
           /\ unit' = [unit EXCEPT !.stage = "deref", !.ret = r.ret,
                                   !.deref = dst]
    /\ step' = "handle_ref_or_deref_of"
    /\ UNCHANGED <<methods, frames, cur_frame, cur_op, ns, ret,
                   skip_else, args, want_ret, out_ret, st, phase, baseline,
                   kept, pre, hev, clears, pops>>


\* ToInteger and then ToBuffer applied to a buffer, in a table of revision
\* 1 or of a later one
ToBuffers ==
    {[i \in 1 .. n |-> 17 * i] : n \in 0 .. 9}
    \cup {[i \in 1 .. n |-> 255] : n \in 1 .. 9}
    \cup {[i \in 1 .. n |-> IF i = n THEN 1 ELSE 0] : n \in 1 .. 9}

ToInputs == [buf : ToBuffers, is_rev1 : BOOLEAN]

ToInit ==
    \E in \in ToInputs :
        UnitState(Noop, RootNode, InitNamespace, InitHeap,
                  [fn |-> "handle_to", in |-> in, stage |-> "created",
                   ret |-> "OK",
                   obj |-> [type |-> "BUFFER", buffer |-> in.buf,
                            integer |-> IntegerBytes(0, 8)]])

ToDone(code, from, to) ==
    /\ phase = "unit"
    /\ unit.fn = "handle_to"
    /\ unit.stage = from
    /\ LET r == handle_to(code, unit.obj, unit.in.is_rev1)
       IN  unit' = [unit EXCEPT !.stage = to, !.ret = r.ret, !.obj = r.obj]
    /\ step' = "handle_to"
    /\ UNCHANGED <<methods, frames, cur_frame, cur_op, ns, heap, ret,
                   skip_else, args, want_ret, out_ret, st, phase, baseline,
                   kept, pre, hev, clears, pops>>

ToInteger == ToDone(UACPI_AML_OP_ToIntegerOp, "created", "integer")

ToBuffer == ToDone(UACPI_AML_OP_ToBufferOp, "integer", "buffer")


\* handle_binary_math applied to Divide and Mod: objects 1 and 2 are the
\* operands, the objects from 3 on those of the other items
MathOperands == {0, 1, 2, 3, 7, 100, 255, 65535}

MathInputs ==
    [op : {UACPI_AML_OP_DivideOp, UACPI_AML_OP_ModOp}, lhs : MathOperands,
     rhs : MathOperands]

MathItems(op) ==
    IF op = UACPI_AML_OP_DivideOp THEN <<1, 2, 3, 4, 5, 6>>
    ELSE <<1, 2, 3, 4>>

MathHeap(in) ==
    [i \in ObjectIds |->
        CASE i = 1 -> IntegerObject(in.lhs)
          [] i = 2 -> IntegerObject(in.rhs)
          [] i \in 3 .. Len(MathItems(in.op)) -> IntegerObject(0)
          [] OTHER -> FreeObject]

MathInit ==
    \E in \in MathInputs :
        UnitState(Noop, RootNode, InitNamespace, MathHeap(in),
                  [fn |-> "handle_binary_math", in |-> in, done |-> FALSE,
                   ret |-> "OK", ub |-> "none"])

\* 'lhs % 0' is undefined behaviour: the division traps, or the build
\* yields some value for it, 0 or the dividend among them
HandleBinaryMath ==
    /\ phase = "unit"
    /\ unit.fn = "handle_binary_math"
    /\ ~unit.done
    /\ \E ub \in IF unit.in.rhs = 0 THEN {"trap", "zero", "dividend"}
                 ELSE {"none"} :
           /\ heap' = IF ub = "trap" THEN heap
                      ELSE handle_binary_math(
                               heap, MathItems(unit.in.op), unit.in.op,
                               IF ub = "dividend" THEN unit.in.lhs ELSE 0)
           /\ unit' = [unit EXCEPT !.done = TRUE, !.ub = ub,
                                   !.ret = IF ub = "trap" THEN "TRAPPED"
                                           ELSE "OK"]
    /\ step' = "handle_binary_math"
    /\ UNCHANGED <<methods, frames, cur_frame, cur_op, ns, ret,
                   skip_else, args, want_ret, out_ret, st, phase, baseline,
                   kept, pre, hev, clears, pops>>


\* the micro-op CONVERT_NAMESTRING of the name-string op that has resolved
\* MTH_, whose node holds a Method with nargs arguments or an Integer,
\* prev_op being what the preempted op before it waits for, 0 if there is
\* none
ConvertInputs ==
    [prev_op : {0} \cup DynamicArgOps, nargs : 0 .. 7,
     holds : {"METHOD", "INTEGER"}]

ConvertHeap(holds) ==
    IF holds = "METHOD" THEN InitHeap
    ELSE [InitHeap EXCEPT ![1] = [FreeObject EXCEPT !.rc = 1,
                                                    !.type = "INTEGER",
                                                    !.integer = 1]]

\* the op-context after EXISTING_NAMESTRING_OR_NULL and the decoding of
\* CONVERT_NAMESTRING
ConvertContext ==
    [NewOpContext(UACPI_AML_OP_InternalOpNameString) EXCEPT
        !.pc = 3,
        !.items = << [NullItem EXCEPT !.type = ITEM_NAMESPACE_NODE,
                                      !.node = MethodNode] >>]

ConvertInit ==
    \E in \in ConvertInputs :
        UnitStateWith(SegMTH \o Noop, in.nargs, Len(SegMTH), RootNode,
                      InitNamespace, ConvertHeap(in.holds),
                      [fn |-> "convert_namestring", in |-> in, done |-> FALSE,
                       ret |-> "OK", crashed |-> FALSE])

ConvertDone(r) ==
    /\ Commit(r.M)
    /\ unit' = [unit EXCEPT !.done = TRUE, !.ret = r.ret,
                            !.crashed = r.crashed]

ConvertNameString ==
    /\ phase = "unit"
    /\ unit.fn = "convert_namestring"
    /\ ~unit.done
    /\ ConvertDone(
           parse_op_convert_namestring(
               [Machine EXCEPT !.frames[1].pending_ops = <<ConvertContext>>],
               1, unit.in.prev_op))
    /\ step' = "convert_namestring"
    /\ UNCHANGED <<methods, args, want_ret, baseline, out_ret, st, phase, pre>>

UnitInit ==
    \/ ConvertInit
    \/ MathInit
    \/ ToInit
    \/ RefOfInit
    \/ IndexInit
    \/ PackageInit
    \/ BufferInit
    \/ CreateFieldInit
    \/ ResolveInit
    \/ NameStringInit
    \/ TypecheckInit
    \/ StoreInit
    \/ CastInit
    \/ FieldInit

UnitNext ==
    \/ ConvertNameString
    \/ HandleBinaryMath
    \/ ToInteger
    \/ ToBuffer
    \/ HandleRefOf
    \/ HandleDerefOfRefOf
    \/ HandleIndex
    \/ HandleDerefOf
    \/ HandlePackage
    \/ HandleBuffer
    \/ CreateBufferField
    \/ ResolveNameString
    \/ NameStringOp
    \/ Typecheck
    \/ CopyObjectOrStore
    \/ AssignWithImplicitCast
    \/ WriteBufferField
    \/ ReadBufferField

UnitSpec == UnitInit /\ [][UnitNext]_vars

(***************************************************************************)
(* Properties.                                                             *)
(***************************************************************************)
\* the objects reachable from a set of objects through inner_object
RECURSIVE ReachableFrom(_)
ReachableFrom(objs) ==
    LET more == objs \cup {heap[i].inner_object :
                              i \in {j \in objs : heap[j].type = "REFERENCE"}}
    IN  IF more = objs THEN objs ELSE ReachableFrom(more)

\* what the caller and the namespace own once the call is over: the
\* objects that existed before the call, the objects of the nodes and the
\* object handed out
OwnedObjects ==
    ReachableFrom((LiveObjects(InitHeap)
                   \cup {ns[n].object : n \in {m \in NodeIds : ns[m].used}}
                   \cup {out_ret}) \ {0})

LeakedObjects == LiveObjects(heap) \ OwnedObjects

RECURSIVE SumSeq(_)
SumSeq(s) == IF s = <<>> THEN 0 ELSE Head(s) + SumSeq(Tail(s))

\* C1: when execute returns OK the call-frame stack is empty (and with it
\* every op-context stack) and every object created during the run has
\* been released: no live object is left that the caller or the namespace
\* does not own, and when nothing was handed out the number of live
\* objects is the one before the call.
C1_SuccessReleasesEverything ==
    (phase = "returned" /\ st = "OK") =>
        /\ frames = <<>>
        /\ LeakedObjects = {}
        /\ (kept = {} /\ out_ret = 0) =>
               Cardinality(LiveObjects(heap)) = baseline

\* C2: when execute fails with k >= 1 frames on the call stack, the unwind
\* pops every pending op-context of every frame through pop_op and then
\* clears each of the k frames: no frame is cleared with op-contexts still
\* pending.
C2_UnwindPopsEveryOpContext ==
    (step = "release" /\ st # "OK") =>
        /\ pops = SumSeq(pre.pending)
        /\ Len(clears) = pre.depth
        /\ \A i \in 1 .. Len(clears) : clears[i].dropped_ops = 0

\* C3: after Return has completed in a frame, no opcode of that frame is
\* fetched any more.
C3_NoFetchAfterReturn ==
    step = "fetch" => ~pre.returned

\* C4: when execute returns a status other than OK, nothing has been
\* written to the caller's *ret.
C4_ErrorLeavesRetUntouched ==
    (phase \in {"release", "returned"} /\ st # "OK") => out_ret = 0

\* the If that is the sibling of the Else the last step handled: the last
\* If evaluated at the Else's block depth, if its package ends where the
\* Else opcode stands
SiblingIf ==
    {e \in hev.if_log : /\ e.depth = Len(hev.code_blocks)
                        /\ e.end = hev.op_offset}

ElseHandled ==
    /\ hev.code = UACPI_AML_OP_ElseOp
    /\ hev.ret = "OK"
    /\ phase # "crashed"

\* whether the block op the last step handled pushed its block
BlockEntered ==
    frames[hev.frame].code_blocks =
        Append(hev.code_blocks,
               [type |-> BlockTypeOfOp(hev.code), begin |-> hev.op_offset,
                end |-> hev.pkg_end, node |-> 0])

BlockSkipped ==
    /\ frames[hev.frame].code_blocks = hev.code_blocks
    /\ frames[hev.frame].code_offset = hev.pkg_end

\* C5: an Else that follows its sibling If is executed iff the If's
\* predicate was zero; otherwise it is skipped by moving to its package end.
C5_ElseIffIfSkipped ==
    ElseHandled =>
        \A e \in SiblingIf : /\ BlockEntered <=> e.zero
                             /\ ~e.zero => BlockSkipped

\* the innermost While of a block stack, 0 if there is none
InnermostWhile(blocks) ==
    IF \E i \in 1 .. Len(blocks) : blocks[i].type = CODE_BLOCK_WHILE
    THEN CHOOSE i \in 1 .. Len(blocks) :
            /\ blocks[i].type = CODE_BLOCK_WHILE
            /\ \A j \in (i + 1) .. Len(blocks) : blocks[j].type # CODE_BLOCK_WHILE
    ELSE 0

ControlFlowHandled ==
    /\ hev.code \in {UACPI_AML_OP_BreakOp, UACPI_AML_OP_ContinueOp}
    /\ InnermostWhile(hev.code_blocks) # 0
    /\ phase # "crashed"

\* C6: Break inside a While moves code_offset to the end of the innermost
\* While, Continue to its begin, and both pop that While and every block
\* above it.
C6_BreakContinueLeaveInnermostWhile ==
    ControlFlowHandled =>
        LET w == InnermostWhile(hev.code_blocks)
        IN  /\ frames[hev.frame].code_blocks = SubSeq(hev.code_blocks, 1, w - 1)
            /\ frames[hev.frame].code_offset =
                  IF hev.code = UACPI_AML_OP_BreakOp
                  THEN hev.code_blocks[w].end
                  ELSE hev.code_blocks[w].begin
            /\ hev.code = UACPI_AML_OP_ContinueOp =>
                  AmlRead(methods[frames[hev.frame].method],
                          frames[hev.frame].code_offset) = UACPI_AML_OP_WhileOp

WhileHandled ==
    /\ hev.code = UACPI_AML_OP_WhileOp
    /\ hev.ret = "OK"

WhileEnded ==
    /\ step = "end_block"
    /\ pre.code_blocks[Len(pre.code_blocks)].type = CODE_BLOCK_WHILE

\* C7: a While pushes its block iff its predicate is not zero, and else
\* moves to its package end with the block stack as it was; when the block
\* ends it is popped and code_offset is back at the While opcode.
C7_WhileEntersIffPredicate ==
    /\ WhileHandled =>
          /\ BlockEntered <=> ~hev.pred_zero
          /\ hev.pred_zero => BlockSkipped
    /\ WhileEnded =>
          /\ frames[cur_frame].code_blocks = PopSeq(pre.code_blocks)
          /\ frames[cur_frame].code_offset < pre.code_offset
          /\ AmlRead(methods[pre.method], frames[cur_frame].code_offset) =
                UACPI_AML_OP_WhileOp

\* C8: at every opcode fetch and every exec_op call the call stack is not
\* empty and cur_frame is its top; the driver loop is left with OK exactly
\* when the call stack is empty.
C8_FrameStackDrivesLoop ==
    /\ step \in {"fetch", "resume"} =>
          /\ pre.depth >= 1
          /\ pre.cur_frame = pre.depth
    /\ step = "exit" => (st = "OK" /\ frames = <<>>)
    /\ (phase = "out" /\ step \in {"fetch", "resume", "exit"}) =>
          (st = "OK" <=> frames = <<>>)
    /\ (phase = "loop" /\ frames = <<>>) => cur_frame = 0

\* C9: at every opcode fetch the frame has a current block and code_offset
\* lies between its begin and its end.
C9_FetchWithinCurrentBlock ==
    (step = "fetch" /\ pre.code_offset < methods[pre.method].size) =>
        /\ pre.code_blocks # <<>>
        /\ pre.code_offset >= pre.code_blocks[Len(pre.code_blocks)].begin
        /\ pre.code_offset <= pre.code_blocks[Len(pre.code_blocks)].end

InstalledNodes == {n \in NodeIds : ns[n].used /\ ns[n].installed}

\* C10: a frame that is left, by return or by unwind, has the nodes it
\* installed uninstalled in the reverse order if its method's named
\* objects do not persist; the nodes installed by methods whose named
\* objects persist stay installed, and are all that execute leaves behind.
C10_TempNodesUninstalledInReverse ==
    /\ \A i \in 1 .. Len(clears) :
          clears[i].uninstalled = IF clears[i].persist THEN <<>>
                                  ELSE Reverse(clears[i].installs)
    /\ kept \subseteq InstalledNodes
    /\ phase = "returned" =>
          InstalledNodes = {RootNode, MethodNode} \cup kept

(***************************************************************************)
(* States in which the cases of the properties above occur.                *)
(***************************************************************************)
\* an Else is skipped after its sibling If ran a body with a nested If
C5_ElseSkippedAfterIfBody ==
    /\ ElseHandled
    /\ \E e \in SiblingIf :
          /\ ~e.zero
          /\ \E n \in hev.if_log : n.depth > e.depth
    /\ BlockSkipped

\* a Break leaves a While from inside a block nested in it
C6_BreakFromNestedBlock ==
    /\ ControlFlowHandled
    /\ hev.code = UACPI_AML_OP_BreakOp
    /\ InnermostWhile(hev.code_blocks) < Len(hev.code_blocks)

\* a While whose body has run is evaluated again and finds a zero predicate
C7_WhileLeftOnZeroPredicate ==
    /\ WhileHandled
    /\ hev.pred_zero
    /\ BlockSkipped

\* an op of a called method is executed, two frames on the call stack
C8_ExecInCalledFrame ==
    /\ step = "resume"
    /\ pre.depth = 2
    /\ pre.cur_frame = 2
    /\ Len(frames) = 2

\* a frame that installed two temporary nodes is cleared by the unwind
C10_TwoTempNodesUnwound ==
    /\ step = "release"
    /\ st # "OK"
    /\ \E i \in 1 .. Len(clears) :
          /\ ~clears[i].persist
          /\ Len(clears[i].installs) = 2
          /\ clears[i].uninstalled = Reverse(clears[i].installs)

(***************************************************************************)
(* Arg and local slots.                                                    *)
(***************************************************************************)
SlotIsReference(slot, kind) ==
    /\ slot # 0
    /\ heap[slot].type = "REFERENCE"
    /\ heap[slot].flags = kind
    /\ heap[slot].inner_object # 0

\* C11: while a frame is live, each of its arg slots holds a Reference of
\* kind Arg and each of its local slots a Reference of kind Local, wrapping
\* an object; no slot is null.
C11_SlotsHoldReferences ==
    phase = "loop" =>
        \A f \in 1 .. Len(frames) :
            /\ \A i \in 0 .. 6 : SlotIsReference(frames[f].args[i], "ARG")
            /\ \A i \in 0 .. 7 : SlotIsReference(frames[f].locals[i], "LOCAL")

(* The argument count. *)
BadArgs ==
    IF args.null THEN methods[1].args # 0 ELSE args.count # methods[1].args

\* C12: when args.count differs from the method's arg count, or args is
\* absent and the arg count is not zero, the call returns INVALID_ARGUMENT,
\* no opcode is fetched, and the namespace and the caller's objects are as
\* they were.
C12_BadArgsRejected ==
    (BadArgs /\ phase # "entry") =>
        /\ st = "INVALID_ARGUMENT"
        /\ phase \in {"out", "release", "returned"}
        /\ step \in {"execute", "out", "release"}
        /\ cur_op = UACPI_AML_OP_Reserved
        /\ pre.fetched = -1
        /\ ns = InitNamespace
        /\ \A o \in LiveObjects(InitHeap) : heap[o] = InitHeap[o]
        /\ out_ret = 0
        /\ phase = "returned" => heap = InitHeap

C12_CountMismatchReturned ==
    /\ phase = "returned"
    /\ ~args.null
    /\ args.count # methods[1].args
    /\ st = "INVALID_ARGUMENT"

(* Name resolution. *)
\* the child named name of the nearest node from s up to the root that has
\* one, 0 if none has
RECURSIVE NearestWithChild(_, _, _)
NearestWithChild(nsp, s, name) ==
    LET hit == uacpi_namespace_node_find(nsp, s, name)
    IN  IF hit # 0 THEN hit
        ELSE IF s = RootNode THEN 0
        ELSE NearestWithChild(nsp, nsp[s].parent, name)

\* the node k levels above s, 0 above the root
RECURSIVE Up(_, _, _)
Up(nsp, s, k) ==
    IF k = 0 THEN s
    ELSE IF s = RootNode THEN 0
    ELSE Up(nsp, nsp[s].parent, k - 1)

\* the node the prefix characters of the path address from the scope s
Addressed(nsp, s, p) == IF p.root THEN RootNode ELSE Up(nsp, s, p.ups)

\* the node reached from n through children named as the segments, 0 if a
\* child is missing
RECURSIVE Walk(_, _, _)
Walk(nsp, n, segs) ==
    IF segs = <<>> \/ n = 0 THEN n
    ELSE Walk(nsp, uacpi_namespace_node_find(nsp, n, Head(segs)), Tail(segs))

Bare(p) == ~p.root /\ p.ups = 0 /\ p.marker = "none"

ResolveDone(behavior) ==
    /\ unit.fn = "resolve_name_string"
    /\ unit.done
    /\ ~unit.crashed
    /\ unit.in.behavior = behavior

\* C13: a find of a single segment with no prefix character and no dual or
\* multi name marker yields the child with the name of the nearest node from
\* the scope up to the root that has one, and NOT_FOUND if none has; a find of
\* any other name string yields the node the segments lead to from the node
\* the prefix addresses, and NOT_FOUND if a segment is missing there, whatever
\* the ancestors hold.
C13_UpwardSearchIffBareSegment ==
    (/\ ResolveDone("FIND")
     /\ unit.in.path.marker # "null"
     /\ Addressed(UnitNamespace(unit.in.foo_at), unit.in.scope,
                  unit.in.path) # 0) =>
        LET nsp == UnitNamespace(unit.in.foo_at)
            p == unit.in.path
            expect == IF Bare(p)
                      THEN NearestWithChild(nsp, unit.in.scope, p.segs[1])
                      ELSE Walk(nsp, Addressed(nsp, unit.in.scope, p), p.segs)
        IN  /\ unit.node = expect
            /\ unit.ret = IF expect = 0 THEN "NOT_FOUND" ELSE "OK"
            /\ ns = nsp

C13_FoundTwoLevelsUp ==
    /\ ResolveDone("FIND")
    /\ Bare(unit.in.path)
    /\ unit.in.scope = ScopeNode
    /\ unit.in.foo_at = <<RootNode>>
    /\ unit.ret = "OK"
    /\ ns[unit.node].name = SegFOO
    /\ ns[unit.node].parent = RootNode

NullNameResolved(behavior) ==
    /\ ResolveDone(behavior)
    /\ unit.in.path.marker = "null"
    /\ Addressed(UnitNamespace(unit.in.foo_at), unit.in.scope, unit.in.path) # 0

\* C14: on a NullName a create fails, and a find succeeds with OK and yields
\* no node, with or without prefix characters before the NullName.
C14_NullNameFindYieldsNoNode ==
    /\ NullNameResolved("CREATE") => unit.ret # "OK"
    /\ NullNameResolved("FIND") => unit.ret = "OK" /\ unit.node = 0

\* C14, as the code has it: on a NullName a create fails with BAD_BYTECODE;
\* a find fails with BAD_BYTECODE when no prefix character precedes the
\* NullName, and with a prefix it succeeds and yields the node the prefix
\* addresses, the code offset being past the NullName.  A failure leaves the
\* code offset and the namespace alone.
C14_NullNameYieldsPrefixNode ==
    LET nsp == UnitNamespace(unit.in.foo_at)
        p == unit.in.path
        failed == /\ unit.ret = "BAD_BYTECODE"
                  /\ unit.node = 0
                  /\ frames[1].code_offset = Len(Noop)
                  /\ ns = nsp
    IN  /\ NullNameResolved("CREATE") => failed
        /\ (NullNameResolved("FIND") /\ Bare([p EXCEPT !.marker = "none"])) =>
               failed
        /\ (NullNameResolved("FIND") /\ ~Bare([p EXCEPT !.marker = "none"])) =>
               /\ unit.ret = "OK"
               /\ unit.node = Addressed(nsp, unit.in.scope, p)
               /\ frames[1].code_offset = Len(Noop) + Len(NameBytes(p))
               /\ ns = nsp

C14_ParentPrefixNullNameFound ==
    /\ NullNameResolved("FIND")
    /\ unit.in.path.ups = 1
    /\ unit.in.scope = ScopeNode
    /\ unit.ret = "OK"
    /\ unit.node = MethodNode

\* the nodes that were allocated and linked to a parent but are not installed
UninstalledNodes == {n \in NodeIds : ns[n].used /\ ~ns[n].installed}

\* C15: a node made by a create is linked to its parent but not installed, so
\* a find does not return it, until INSTALL_NAMESPACE_NODE runs; when the
\* opcode that made it fails before that, the node is freed: a call that
\* returns an error leaves no node that is allocated and not installed.
C15_FailedCreateFreesNode ==
    /\ \A n \in UninstalledNodes :
           uacpi_namespace_node_find(ns, ns[n].parent, ns[n].name) # n
    /\ (phase = "returned" /\ st # "OK") => UninstalledNodes = {}

(* Unresolved names. *)
NameStringOpDone ==
    /\ unit.fn = "namestring"
    /\ unit.done
    /\ ~unit.crashed
    /\ unit.in.op # UACPI_PARSE_OP_CREATE_NAMESTRING

\* C16: the NOT_FOUND of resolving an existing name becomes OK whenever the
\* preempted op before waits for SUPERNAME_OR_UNRESOLVED or
\* TERM_ARG_OR_NAMED_OBJECT_OR_UNRESOLVED, or the micro-op is
\* EXISTING_NAMESTRING_OR_NULL, or the opcode is a standalone External;
\* otherwise NOT_FOUND is returned.
C16_UnresolvedAllowedByAnyOp ==
    (NameStringOpDone /\ unit.in.foo_at = <<>>) =>
        unit.ret =
            IF \/ unit.in.prev_op \in
                      { UACPI_PARSE_OP_SUPERNAME_OR_UNRESOLVED,
                        UACPI_PARSE_OP_TERM_ARG_OR_NAMED_OBJECT_OR_UNRESOLVED }
               \/ unit.in.op = UACPI_PARSE_OP_EXISTING_NAMESTRING_OR_NULL
               \/ /\ unit.in.prev_op = 0
                  /\ unit.in.code = UACPI_AML_OP_ExternalOp
            THEN "OK" ELSE "NOT_FOUND"

\* C16, as the code has it: the NOT_FOUND becomes OK when the preempted op
\* before waits for SUPERNAME_OR_UNRESOLVED or
\* TERM_ARG_OR_NAMED_OBJECT_OR_UNRESOLVED and the micro-op is
\* EXISTING_NAMESTRING_OR_NULL as well, or when no op is preempted before and
\* the opcode is External; otherwise NOT_FOUND is returned.  Either way the
\* item holds no node and the code offset is past the name; a name that
\* exists yields OK and its node.
C16_UnresolvedAllowedByBothOps ==
    /\ (NameStringOpDone /\ unit.in.foo_at = <<>>) =>
           /\ unit.ret =
                  IF \/ /\ unit.in.prev_op \in
                               { UACPI_PARSE_OP_SUPERNAME_OR_UNRESOLVED,
                                 UACPI_PARSE_OP_TERM_ARG_OR_NAMED_OBJECT_OR_UNRESOLVED }
                        /\ unit.in.op = UACPI_PARSE_OP_EXISTING_NAMESTRING_OR_NULL
                     \/ /\ unit.in.prev_op = 0
                        /\ unit.in.code = UACPI_AML_OP_ExternalOp
                  THEN "OK" ELSE "NOT_FOUND"
           /\ unit.node = 0
           /\ frames[1].code_offset = Len(SegFOO)
    /\ (NameStringOpDone /\ unit.in.foo_at # <<>>) =>
           /\ unit.ret = "OK"
           /\ unit.node # 0
           /\ ns[unit.node].name = SegFOO

C16_UnresolvedOperandOfPackage ==
    /\ NameStringOpDone
    /\ unit.in.foo_at = <<>>
    /\ unit.in.prev_op = UACPI_PARSE_OP_TERM_ARG_OR_NAMED_OBJECT_OR_UNRESOLVED
    /\ unit.in.op = UACPI_PARSE_OP_EXISTING_NAMESTRING_OR_NULL
    /\ unit.in.code = UACPI_AML_OP_InternalOpNameString
    /\ unit.ret = "OK"
    /\ unit.node = 0

(* The typecheck gate. *)
\* the ops of a pending op-context stack that have run a micro-op under a
\* preempted op: [awaited role, properties of the opcode]
StartedChildren(ops) ==
    { [waiting |-> DecodeAt(ops[k - 1], ops[k - 1].pc),
       props |-> uacpi_get_op_spec(ops[k].op).properties] :
        k \in {j \in 2 .. Len(ops) : ops[j - 1].preempted /\ ops[j].pc > 0} }

\* the properties one of which the role asks for, listed property by property
Accepted(waiting, props) ==
    \/ /\ "SIMPLE_NAME" \in props
       /\ waiting = UACPI_PARSE_OP_SIMPLE_NAME
    \/ /\ "TARGET" \in props
       /\ waiting = UACPI_PARSE_OP_TARGET
    \/ /\ "SUPERNAME" \in props
       /\ waiting \in { UACPI_PARSE_OP_TARGET, UACPI_PARSE_OP_SUPERNAME,
                        UACPI_PARSE_OP_SUPERNAME_IMPLICIT_DEREF,
                        UACPI_PARSE_OP_SUPERNAME_OR_UNRESOLVED }
    \/ /\ "TERM_ARG" \in props
       /\ waiting \in { UACPI_PARSE_OP_TERM_ARG,
                        UACPI_PARSE_OP_TERM_ARG_UNWRAP_INTERNAL,
                        UACPI_PARSE_OP_TERM_ARG_OR_NAMED_OBJECT,
                        UACPI_PARSE_OP_TERM_ARG_OR_NAMED_OBJECT_OR_UNRESOLVED,
                        UACPI_PARSE_OP_OPERAND,
                        UACPI_PARSE_OP_COMPUTATIONAL_DATA }

StoredTo(code, kinds) ==
    /\ phase = "unit"
    /\ unit.fn = "handle_copy_object_or_store"
    /\ unit.done
    /\ unit.in.code = code
    /\ unit.in.chain # <<>>
    /\ unit.in.chain[1] \in kinds

\* the last Reference of the target's chain and the object it ended in
LastReference == Len(unit.in.chain)

Bottom == StoreBottom(unit.in)

\* the object kept its type and its size, and its storage holds the bytes of
\* the source, cut or padded with zeros to that size
CastOnto(before, obj, source) ==
    LET old == get_object_storage(before, obj, FALSE).bytes
        new == get_object_storage(heap, obj, FALSE).bytes
        from == get_object_storage(before, source, FALSE).bytes
    IN  /\ heap[obj].type = before[obj].type
        /\ Len(heap[obj].buffer) = Len(before[obj].buffer)
        /\ Len(new) = Len(old)
        /\ \A i \in 1 .. Len(new) :
                new[i] = IF i <= Len(from) THEN from[i] ELSE 0
        /\ \A o \in ObjectIds \ {obj} : heap[o] = before[o]

\* the Reference wraps a new object with the type and the value of the
\* source; the object it wrapped lost that reference and nothing else
ReplacedBy(before, parent, source) ==
    LET new == heap[parent].inner_object
        old == before[parent].inner_object
    IN  /\ before[new].rc = 0
        /\ heap[new] = [before[source] EXCEPT !.rc = 1]
        /\ heap[old] = [before[old] EXCEPT !.rc = @ - 1]
        /\ heap[parent] = [before[parent] EXCEPT !.inner_object = new]
        /\ \A o \in ObjectIds \ {new, old, parent} : heap[o] = before[o]

C20_ArgOverwritesAtEndOfChain ==
    \A code \in {UACPI_AML_OP_StoreOp, UACPI_AML_OP_CopyObjectOp} :
        StoredTo(code, {"ARG"}) =>
            /\ unit.ret = "OK"
            /\ heap[1] = [StoreHeap(unit.in)[1] EXCEPT
                              !.inner_object = IF Len(unit.in.chain) > 1
                                               THEN 2 ELSE heap[1].inner_object]
            /\ ReplacedBy(StoreHeap(unit.in), LastReference,
                          StoreSource(unit.in))
            /\ heap[Bottom].rc = 1
            /\ heap[Bottom].type = unit.in.bottom.type
            /\ heap[Bottom].integer = unit.in.bottom.integer
            /\ heap[Bottom].buffer = unit.in.bottom.buffer

\* a String was copied by CopyObject to an Arg that holds a reference to a
\* Local with an Integer: the Local holds a String, the Arg the reference
C20_CopyObjectThroughArg ==
    /\ StoredTo(UACPI_AML_OP_CopyObjectOp, {"ARG"})
    /\ unit.in.chain = <<"ARG", "REFOF", "LOCAL">>
    /\ unit.in.bottom.type = "INTEGER"
    /\ unit.in.source.type = "STRING"
    /\ unit.ret = "OK"
    /\ heap[1].inner_object = 2
    /\ heap[3].inner_object # Bottom
    /\ heap[heap[3].inner_object].type = "STRING"
    /\ heap[heap[3].inner_object].buffer = unit.in.source.buffer
    /\ heap[Bottom].type = "INTEGER"

\* handle_copy_object_or_store of the op was applied to a target that is no
\* Reference
StoredToObject(code) ==
    /\ phase = "unit"
    /\ unit.fn = "handle_copy_object_or_store"
    /\ unit.done
    /\ unit.in.code = code
    /\ unit.in.chain = <<>>

\* the Reference, the same object as before, wraps a new object with the
\* type and the value of the source
WrapsCopy(before, ref, source) ==
    /\ before[heap[ref].inner_object].rc = 0
    /\ heap[heap[ref].inner_object] = [before[source] EXCEPT !.rc = 1]
    /\ heap[ref] = [before[ref] EXCEPT !.inner_object = heap[ref].inner_object]

\* C21: CopyObject to a Local, Named or PkgIndex reference returns OK and
\* makes the reference, which stays the object its aliases hold, wrap a copy
\* of the source, whatever it wrapped before; CopyObject to a RefOf reference
\* and to a target that is no reference fails and changes nothing.
C21_CopyObjectReplacesWrapped ==
    /\ StoredTo(UACPI_AML_OP_CopyObjectOp, {"LOCAL", "NAMED", "PKG_INDEX"}) =>
            /\ unit.ret = "OK"
            /\ WrapsCopy(StoreHeap(unit.in), 1, StoreSource(unit.in))
    /\ StoredTo(UACPI_AML_OP_CopyObjectOp, {"REFOF"}) =>
            /\ unit.ret = "INVALID_ARGUMENT"
            /\ heap = StoreHeap(unit.in)
    /\ StoredToObject(UACPI_AML_OP_CopyObjectOp) =>
            /\ unit.ret = "BAD_BYTECODE"
            /\ heap = StoreHeap(unit.in)

\* a String was copied by CopyObject to a PkgIndex reference that held a
\* reference: the PkgIndex reference wraps a String
C21_StringCopiedOverReference ==
    /\ StoredTo(UACPI_AML_OP_CopyObjectOp, {"PKG_INDEX"})
    /\ unit.in.chain = <<"PKG_INDEX", "REFOF", "NAMED">>
    /\ unit.in.source.type = "STRING"
    /\ unit.ret = "OK"
    /\ heap[1].flags = "PKG_INDEX"
    /\ heap[heap[1].inner_object].type = "STRING"
    /\ heap[heap[1].inner_object].buffer = unit.in.source.buffer

\* C22: store_to_target takes a Debug target (OK, no object changes), a
\* Reference, a BufferIndex and an Integer 0 (OK, nothing changes); an
\* Integer that is not 0 and a target of any other type give BAD_BYTECODE
\* and nothing changes.
C22_StoreTargetKinds ==
    /\ StoredToObject(UACPI_AML_OP_StoreOp) =>
            CASE unit.in.bottom.type = "DEBUG"
                 \/ (unit.in.bottom.type = "INTEGER" /\ unit.in.bottom.integer = 0) ->
                    unit.ret = "OK" /\ heap = StoreHeap(unit.in)
              [] unit.in.bottom.type = "BUFFER_INDEX" ->
                    /\ unit.ret # "BAD_BYTECODE"
                    /\ ~unit.in.wrapped => unit.ret = "OK"
              [] OTHER ->
                    unit.ret = "BAD_BYTECODE" /\ heap = StoreHeap(unit.in)
    /\ StoredTo(UACPI_AML_OP_StoreOp,
                {"LOCAL", "ARG", "NAMED", "PKG_INDEX", "REFOF"}) =>
            unit.ret # "BAD_BYTECODE"

\* a Buffer was stored to an Integer that is not 0: BAD_BYTECODE
C22_StoreToIntegerRejected ==
    /\ StoredToObject(UACPI_AML_OP_StoreOp)
    /\ unit.in.bottom.type = "INTEGER"
    /\ unit.in.bottom.integer = 7
    /\ unit.in.source.type = "BUFFER"
    /\ unit.ret = "BAD_BYTECODE"

(***************************************************************************)
(* Implicit cast                                                           *)
(***************************************************************************)
CastApplied ==
    /\ phase = "unit"
    /\ unit.fn = "object_assign_with_implicit_cast"
    /\ unit.done

\* C23: the assignment with implicit cast onto an Integer, String or Buffer
\* keeps the destination's type and size, copies the bytes of the source's
\* storage that fit to its start and zeroes the rest; onto a BufferIndex it
\* changes the byte at idx of the buffer and nothing else; a source that is
\* no Integer, String or Buffer gives an error and changes nothing.
C23_ImplicitCastKeepsTypeAndSize ==
    CastApplied =>
        IF unit.in.src.type \notin {"INTEGER", "STRING", "BUFFER"}
        THEN unit.ret # "OK" /\ heap = CastHeap(unit.in)
        ELSE IF unit.in.dst.type = "BUFFER_INDEX"
        THEN /\ unit.ret = "OK"
             /\ heap[3].buffer =
                    [CastHeap(unit.in)[3].buffer EXCEPT
                        ![unit.in.dst.buffer_index.idx + 1] =
                            IF get_object_storage(heap, 2, FALSE).bytes = <<>>
                            THEN 0
                            ELSE get_object_storage(heap, 2, FALSE).bytes[1]]
             /\ heap = [CastHeap(unit.in) EXCEPT ![3].buffer = heap[3].buffer]
        ELSE /\ unit.ret = "OK"
             /\ CastOnto(CastHeap(unit.in), 1, 2)
             /\ unit.in.dst.type = "STRING" =>
                    heap[1].buffer[Len(heap[1].buffer)] = 0

\* a String of two characters was cast onto a Buffer of ten bytes: two
\* bytes of text, eight zeros
C23_ShortStringOntoLongBuffer ==
    /\ CastApplied
    /\ unit.in.src = StringObject(<<120, 121>>)
    /\ Len(unit.in.dst.buffer) = 10
    /\ heap[1].type = "BUFFER"
    /\ heap[1].buffer = <<120, 121, 0, 0, 0, 0, 0, 0, 0, 0>>

(***************************************************************************)
(* Buffer fields                                                           *)
(***************************************************************************)
\* bit p of the data, bit 0 being the lowest bit of the first byte; 0 past
\* the end
BitOf(data, p) ==
    IF p \div 8 + 1 > Len(data) THEN 0
    ELSE (data[p \div 8 + 1] \div 2^(p % 8)) % 2

FieldWritten ==
    /\ phase = "unit"
    /\ unit.fn = "buffer_field"
    /\ unit.stage = "written"

FieldRead ==
    /\ phase = "unit"
    /\ unit.fn = "buffer_field"
    /\ unit.stage = "read"

\* C24: a write to a buffer field changes no bit of the backing buffer
\* outside [bit_index, bit_index + bit_length), whatever the source is.
C24_WriteKeepsBitsOutsideField ==
    FieldWritten =>
        \A p \in 0 .. (8 * Len(unit.in.backing) - 1) :
            (p < unit.in.bit_index
                \/ p >= unit.in.bit_index + unit.in.bit_length) =>
                BitOf(heap[3].buffer, p) = BitOf(unit.in.backing, p)

\* C25: a write to a buffer field and then a read of it gives the low
\* bit_length bits of the source's storage, zero-extended to the bytes read.
C25_ReadReturnsWrittenBits ==
    FieldRead =>
        /\ Len(unit.out) = (unit.in.bit_length + 7) \div 8
        /\ \A p \in 0 .. (8 * Len(unit.out) - 1) :
               BitOf(unit.out, p) =
                   IF p < unit.in.bit_length
                   THEN BitOf(get_object_storage(heap, 2, FALSE).bytes, p)
                   ELSE 0

\* six bits from bit 13 on were written from a source of all ones into a
\* buffer of zeros and read back as 3F
C25_SixBitsReadBack ==
    /\ FieldRead
    /\ unit.in.bit_index = 13
    /\ unit.in.bit_length = 6
    /\ unit.in.backing = [i \in 1 .. BackingSize |-> 0]
    /\ unit.in.src = BufferObject([i \in 1 .. 10 |-> 255])
    /\ unit.out = <<63>>
    /\ heap[3].buffer[2] = 224
    /\ heap[3].buffer[3] = 7

\* scenario S3: CreateField(buf, 4, 12, F) on a buffer of 4 zero bytes and
\* Store(0xABC, F) have been done
ScenarioS3 ==
    /\ FieldWritten
    /\ unit.in.backing = <<0, 0, 0, 0>>
    /\ unit.in.bit_index = 4
    /\ unit.in.bit_length = 12
    /\ unit.in.src = IntegerObject(2748)

\* C26 as stated: after scenario S3 the buffer's bytes are C0 BA 00 00
C26_ScenarioS3ReadsC0BA ==
    ScenarioS3 => heap[3].buffer = <<192, 186, 0, 0>>

\* C26: after scenario S3 the buffer's bytes are C0 AB 00 00, the twelve
\* bits of 0xABC from bit 4 on
C26_ScenarioS3ReadsC0AB ==
    ScenarioS3 => unit.ret = "OK" /\ heap[3].buffer = <<192, 171, 0, 0>>

C26_ScenarioS3Done ==
    ScenarioS3 /\ BytesInteger(heap[3].buffer) = 2748 * 16

CreateFieldApplied ==
    /\ phase = "unit"
    /\ unit.fn = "handle_create_buffer_field"
    /\ unit.done

\* the field that the operands describe lies inside the buffer
field_fits ==
    /\ unit.bit_length # IntegerBytes(0, 8)
    /\ ~field_overruns_unwrapped(unit.bit_index, unit.bit_length,
                                 unit.in.size)

\* C27: a buffer field that a Create*Field op binds has a bit_length other
\* than 0 and lies inside its buffer, bit_index + bit_length <= 8 * size,
\* whatever the 64-bit index operand; operands that do not fit give
\* BAD_BYTECODE and bind no field
C27_BoundFieldLiesInsideBuffer ==
    CreateFieldApplied =>
        /\ unit.bound => field_fits
        /\ ~field_fits => unit.ret = "BAD_BYTECODE" /\ ~unit.bound

BufferBuilt ==
    /\ phase = "unit"
    /\ unit.fn = "handle_buffer"
    /\ unit.done

\* the declared size of the build is not 0 and not over the limit, and the
\* initializers end inside the method
BufferSizeValid ==
    /\ unit.in.declared_size # IntegerBytes(0, 8)
    /\ ~GreaterBytes(unit.in.declared_size, SizeLimit)
    /\ unit.in.pkg_end <= Len(unit.in.code)

\* the initializer bytes of the build
Initializers == SubSeq(unit.in.code, unit.in.aml_offset + 1, unit.in.pkg_end)

\* the buffer has the declared size, starts with the first min(k, n)
\* initializers and is zero after them
BufferHoldsInitializers ==
    /\ unit.ret = "OK"
    /\ heap[1].type = "BUFFER"
    /\ Len(heap[1].buffer) = BytesInteger(unit.in.declared_size)
    /\ \A i \in 1 .. Len(heap[1].buffer) :
           heap[1].buffer[i] =
               IF i <= Len(Initializers) THEN Initializers[i] ELSE 0

\* C28: a buffer build with a declared size n, not 0 and not over the limit,
\* and k initializers always succeeds with a buffer of n bytes, the first
\* min(k, n) the initializers and the rest zero, also when k > n
C28_BufferBuildAlwaysSucceeds ==
    (BufferBuilt /\ BufferSizeValid) => BufferHoldsInitializers

\* C28, amended: with k <= n the build succeeds with a buffer of n bytes,
\* the first k the initializers and the rest zero; with k > n it returns
\* BAD_BYTECODE and the buffer object stays without data
C28_BufferBuildRefusesExtraInitializers ==
    (BufferBuilt /\ BufferSizeValid) =>
        IF Len(Initializers) <= BytesInteger(unit.in.declared_size)
        THEN BufferHoldsInitializers
        ELSE unit.ret = "BAD_BYTECODE" /\ heap[1].buffer = <<>>

C28_ExtraInitializersRefused ==
    /\ BufferBuilt
    /\ BufferSizeValid
    /\ Len(Initializers) = 5
    /\ unit.in.declared_size = IntegerBytes(3, 8)
    /\ unit.ret = "BAD_BYTECODE"

PackageBuilt ==
    /\ phase = "unit"
    /\ unit.fn = "handle_package"
    /\ unit.done

\* the count of the package is within the limit and every initializer that
\* is a name spells a name
PackageValid ==
    /\ ~GreaterBytes(unit.in.num_elements, SizeLimit)
    /\ \A j \in 1 .. Len(unit.in.elems) :
           unit.in.elems[j].kind \in {"named", "null"}
               => unit.in.elems[j].name # <<>>

\* the slot is an object of its own that holds what the initializer asks for
SlotHolds(slot, e) ==
    IF e.kind \in {"named", "null"}
    THEN /\ heap[slot].type = "STRING"
         /\ heap[slot].flags = "PATH"
         /\ heap[slot].buffer = e.name \o <<0>>
    ELSE LET v == IF e.kind = "local" THEN IntegerObject(7)
                  ELSE ElementObject(e)
         IN  /\ heap[slot].type = v.type
             /\ heap[slot].integer = v.integer
             /\ heap[slot].buffer = v.buffer

PackageHoldsInitializers ==
    LET slots == heap[1].package
        n == BytesInteger(unit.in.num_elements)
        defined == Len(unit.in.elems)
    IN  /\ unit.ret = "OK"
        /\ unit.ub = "none"
        /\ heap[1].type = "PACKAGE"
        /\ Len(slots) = n
        /\ \A i \in 1 .. n :
               /\ heap[slots[i]].rc = 1
               /\ \A j \in 1 .. n : slots[i] = slots[j] => i = j
               /\ \A j \in 1 .. defined : unit.items[j].obj # slots[i]
               /\ IF i <= defined THEN SlotHolds(slots[i], unit.in.elems[i])
                  ELSE heap[slots[i]].type = "UNINITIALIZED"

\* C29: a package build yields a package of num_elements slots; slot i below
\* min(defined, num_elements) holds a copy of the i-th initializer, or the
\* Path String of the dotted name for an initializer that is a Named
\* reference or an unresolved name; the other slots are Uninitialized;
\* initializers beyond num_elements are dropped and the build returns OK
C29_PackageBuildFillsSlots ==
    (PackageBuilt /\ PackageValid) => PackageHoldsInitializers

IndexUnit == phase = "unit" /\ unit.fn = "handle_index"

\* the slots that an Index of the package has been applied to
IndexedSlots == {unit.results[k].idx : k \in 1 .. Len(unit.results)}

\* the slot is a PkgIndex Reference one level above the object and the
\* value that it held at first, and every Index of it gave that Reference
SlotLifted(i) ==
    LET ref == heap[1].package[i + 1]
    IN  /\ heap[ref].type = "REFERENCE"
        /\ heap[ref].flags = "PKG_INDEX"
        /\ heap[ref].inner_object = i + 2
        /\ heap[i + 2] = SlotObject(unit.in[i + 1])
        /\ \A k \in 1 .. Len(unit.results) :
               unit.results[k].idx = i => unit.results[k].obj = ref
        /\ heap[ref].rc =
               1 + Cardinality({k \in 1 .. Len(unit.results) :
                                   unit.results[k].idx = i})

\* the object has the type and the payload of the value
SameValue(obj, value) ==
    /\ heap[obj].type = value.type
    /\ heap[obj].integer = value.integer
    /\ heap[obj].buffer = value.buffer
    /\ heap[obj].inner_object = value.inner_object

\* an Index out of bounds returns BAD_BYTECODE and changes no object
OutOfBoundsRefused ==
    (unit.last = "index" /\ unit.idx >= Len(unit.in))
        => unit.ret = "BAD_BYTECODE" /\ heap = unit.before

\* C30: after any number of Index(pkg, i) with i in bounds the slot is a
\* PkgIndex Reference one level above its value, every Index result is that
\* Reference, and DerefOf of a result equals the value that the slot held
\* before the first Index; an Index out of bounds returns BAD_BYTECODE and
\* leaves the package as it was
C30_DerefOfIndexIsSlotValue ==
    IndexUnit =>
        /\ \A i \in IndexedSlots : SlotLifted(i)
        /\ unit.deref.obj # 0 =>
               SameValue(unit.deref.obj, SlotObject(unit.in[unit.deref.idx + 1]))
        /\ OutOfBoundsRefused

\* C30, amended: as above, with DerefOf of a result equal to the value of
\* the slot when that value is not a Reference, and to the bottom-most
\* object that is not a Reference when it is one
C30_DerefOfIndexIsBottomValue ==
    IndexUnit =>
        /\ \A i \in IndexedSlots : SlotLifted(i)
        /\ unit.deref.obj # 0 =>
               SameValue(unit.deref.obj,
                         IF unit.in[unit.deref.idx + 1] = "refof"
                         THEN IntegerObject(9)
                         ELSE SlotObject(unit.in[unit.deref.idx + 1]))
        /\ OutOfBoundsRefused

C30_SlotIndexedTwiceAndDereferenced ==
    /\ IndexUnit
    /\ Len(unit.results) = 3
    /\ unit.results[1].idx = 1
    /\ unit.results[2].idx = 1
    /\ unit.in[2] = "string"
    /\ unit.deref.obj # 0
    /\ unit.deref.idx = 1
    /\ unit.ret = "OK"

DerefOfRefOfDone ==
    /\ phase = "unit"
    /\ unit.fn = "handle_ref_or_deref_of"
    /\ unit.stage = "deref"

\* the object has the type and the whole payload of the value
SameObject(obj, value) ==
    /\ SameValue(obj, value)
    /\ heap[obj].package = value.package
    /\ heap[obj].buffer_index = value.buffer_index

\* C31: DerefOf(RefOf(x)) yields an object of the type and the value of x
\* for every x that is not a Reference, a BufferIndex included
C31_DerefOfRefOfIsOperand ==
    DerefOfRefOfDone =>
        /\ unit.ret = "OK"
        /\ SameObject(unit.deref, RefOfObject(unit.in.kind))

\* C31, amended: DerefOf(RefOf(x)) yields an object of the type and the
\* value of x for every x that is neither a Reference nor a BufferIndex, and
\* for a BufferIndex the Integer of the byte that it points at
C31_DerefOfRefOfReadsBufferIndex ==
    DerefOfRefOfDone =>
        /\ unit.ret = "OK"
        /\ [heap[1] EXCEPT !.rc = 1] = RefOfObject(unit.in.kind)
        /\ IF unit.in.kind = "buffer_index"
           THEN SameObject(unit.deref, IntegerObject(34))
           ELSE SameObject(unit.deref, RefOfObject(unit.in.kind))

C31_BufferDereferenced ==
    /\ DerefOfRefOfDone
    /\ unit.in.kind = "buffer"
    /\ unit.in.wrapped
    /\ heap[unit.deref].buffer = <<5, 6, 7>>

\* ToBuffer(ToInteger(buf)) has been computed for a buffer of 1 to 8 bytes
RoundTripDone ==
    /\ phase = "unit"
    /\ unit.fn = "handle_to"
    /\ unit.stage = "buffer"
    /\ Len(unit.in.buf) \in 1 .. 8

\* buf, cut or padded with zero bytes to n bytes
PaddedTo(buf, n) == [i \in 1 .. n |-> IF i <= Len(buf) THEN buf[i] ELSE 0]

\* C32: for a buffer of 1 to 8 bytes ToBuffer(ToInteger(buf)) is the 8-byte
\* buffer of buf followed by zero bytes, at revision 1 and at later ones
C32_RoundTripPadsToEightBytes ==
    RoundTripDone =>
        /\ unit.ret = "OK"
        /\ unit.obj.type = "BUFFER"
        /\ unit.obj.buffer = PaddedTo(unit.in.buf, 8)

\* C32, amended: at a revision later than 1 the result is the 8-byte buffer
\* of buf followed by zero bytes; at revision 1 it is the 4-byte buffer of
\* the first four bytes of buf, followed by zero bytes if buf is shorter
C32_RoundTripPadsToIntegerSize ==
    RoundTripDone =>
        /\ unit.ret = "OK"
        /\ unit.obj.type = "BUFFER"
        /\ unit.obj.buffer =
               PaddedTo(unit.in.buf, IF unit.in.is_rev1 THEN 4 ELSE 8)

C32_SixBytesRoundTrip ==
    /\ RoundTripDone
    /\ ~unit.in.is_rev1
    /\ unit.in.buf = <<17, 34, 51, 68, 85, 102>>
    /\ unit.obj.buffer = <<17, 34, 51, 68, 85, 102, 0, 0>>

Divided ==
    /\ phase = "unit"
    /\ unit.fn = "handle_binary_math"
    /\ unit.done
    /\ unit.in.op = UACPI_AML_OP_DivideOp

\* C33: Divide by 0 completes without a trap with the quotient 0 and the
\* remainder 0; with another divisor the quotient lhs / rhs goes to the
\* second target and the remainder lhs % rhs to the first
C33_DivideByZeroYieldsZero ==
    Divided =>
        /\ unit.ret = "OK"
        /\ heap[5].integer =
               IF unit.in.rhs = 0 THEN 0 ELSE unit.in.lhs % unit.in.rhs
        /\ heap[6].integer =
               IF unit.in.rhs = 0 THEN 0 ELSE unit.in.lhs \div unit.in.rhs

\* C34: a frame is popped only when its op-context stack is empty, so a
\* method whose bytecode ends while an opcode still waits for a dynamic
\* argument does not complete with OK.
C34_FramePoppedOnlyWhenOpsDone ==
    (step = "frame_pop" /\ st = "OK") =>
        \A i \in 1 .. Len(clears) : clears[i].dropped_ops = 0

\* the op-context waits at a dynamic-argument micro-op with the empty Item
\* appended for it
WaitsForArgument(oc) ==
    /\ DecodeAt(oc, oc.pc) \in DynamicArgOps
    /\ oc.items # <<>>
    /\ oc.items[Len(oc.items)].type = ITEM_EMPTY_OBJECT
    /\ oc.items[Len(oc.items)].obj = 0

\* the op-context was: it is one past the micro-op and the Item holds the
\* object the child deposited
ArgumentServed(before, after) ==
    /\ after.pc = before.pc + 1
    /\ DecodeAt(after, before.pc) \in DynamicArgOps
    /\ Len(after.items) = Len(before.items)
    /\ after.items[Len(after.items)].type = ITEM_OBJECT
    /\ after.items[Len(after.items)].obj # 0

\* what a step of the driver loop does to the op-context i of the frame f
OpContextStep(f, i) ==
    LET before == frames[f].pending_ops[i]
        after == frames'[f].pending_ops[i]
    IN  /\ (before.preempted /\ after.preempted) => after = before
        /\ (before.preempted /\ ~after.preempted) =>
               /\ ArgumentServed(before, after)
               /\ Len(frames'[f].pending_ops) = i
        /\ (~before.preempted /\ after.preempted) =>
               /\ WaitsForArgument(after)
               /\ Len(after.items) > Len(before.items)
               /\ Len(frames'[f].pending_ops) = i

\* an op-context the step pushed
OpContextPushed(f, i) ==
    frames'[f].pending_ops[i].preempted =>
        WaitsForArgument(frames'[f].pending_ops[i])

DynamicArgumentStep ==
    \A f \in 1 .. Len(frames') :
        \A i \in 1 .. Len(frames'[f].pending_ops) :
            IF f <= Len(frames) /\ i <= Len(frames[f].pending_ops)
            THEN OpContextStep(f, i)
            ELSE OpContextPushed(f, i)

BelowTopPreempted ==
    \A f \in 1 .. Len(frames) :
        \A i \in 1 .. Len(frames[f].pending_ops) - 1 :
            frames[f].pending_ops[i].preempted

MethodCallOps ==
    UACPI_AML_OP_InternalOpMethodCall0Args
        .. UACPI_AML_OP_InternalOpMethodCall0Args + 7

TopOp(fr) == fr.pending_ops[Len(fr.pending_ops)]
LastItem(oc) == oc.items[Len(oc.items)]

\* the step pushed a callee frame for the method-call op-context on top of
\* the caller's stack
CalleeFramePushed ==
    LET callee == frames'[Len(frames')]
        call == TopOp(frames'[Len(frames)])
        node == call.items[1].node
        method == heap[uacpi_namespace_node_get_object(heap, ns, node)].method
    IN  /\ cur_frame' = Len(frames')
        /\ call.op \in MethodCallOps
        /\ callee.method = method
        /\ callee.code_offset = 0
        /\ callee.code_blocks =
               <<[type |-> CODE_BLOCK_SCOPE, node |-> node, begin |-> 0,
                  end |-> methods[method].size]>>
        /\ callee.cur_scope = node
        /\ callee.pending_ops = <<>>
        /\ Len(call.items) = methods[method].args + 3
        /\ \A i \in 0 .. 6 :
               IF i < methods[method].args
               THEN /\ callee.args[i] # 0
                    /\ heap'[callee.args[i]].type = "REFERENCE"
                    /\ heap'[callee.args[i]].flags = "ARG"
                    /\ heap'[callee.args[i]].inner_object = call.items[3 + i].obj
               ELSE callee.args[i] = 0

\* the frames below the top one are left alone
CallersUntouched ==
    \A f \in 1 .. Len(frames) - 1 :
        f <= Len(frames') =>
            /\ frames'[f].pending_ops = frames[f].pending_ops
            /\ frames'[f].code_blocks = frames[f].code_blocks
            /\ frames'[f].code_offset = frames[f].code_offset

\* the callee frame is gone and the caller goes on with its method call
CallerResumes ==
    LET caller == frames'[Len(frames')]
    IN  /\ cur_frame' = Len(frames')
        /\ caller.pending_ops # <<>>
        /\ TopOp(caller).op \in MethodCallOps
        /\ ~TopOp(caller).preempted
        /\ DecodeAt(TopOp(caller), TopOp(caller).pc - 1) =
               UACPI_PARSE_OP_DISPATCH_METHOD_CALL

\* the step runs the handler of Return in a callee
ReturnsToCaller ==
    /\ Len(frames) > 1
    /\ cur_frame = Len(frames)
    /\ frames[cur_frame].pending_ops # <<>>
    /\ TopOp(frames[cur_frame]).op = UACPI_AML_OP_ReturnOp
    /\ ~TopOp(frames[cur_frame]).preempted
    /\ st' = "OK"

ReturnValueCopied ==
    LET operand == TopOp(frames[cur_frame]).items[1].obj
        result == LastItem(TopOp(frames[Len(frames) - 1])).obj
    IN  /\ result # operand
        /\ heap'[result].type = heap[operand].type
        /\ heap'[result].integer = heap[operand].integer
        /\ heap'[result].buffer = heap[operand].buffer

MethodCallStep ==
    /\ CallersUntouched
    /\ (Len(frames') = Len(frames) + 1 /\ phase' = "loop") => CalleeFramePushed
    /\ (Len(frames') = Len(frames) - 1 /\ frames' # <<>>) => CallerResumes
    /\ ReturnsToCaller => ReturnValueCopied

\* C36: DISPATCH_METHOD_CALL pushes a callee frame with code_offset 0, a
\* base Scope block [0, method.size] and the scope of the method's node,
\* whose args[i] is an Arg reference wrapping the caller's i-th operand;
\* until the callee frame is popped the caller's op-context stack, block
\* stack and code_offset do not change; then the caller resumes the same
\* method-call op-context; a value passed to Return in the callee is copied
\* into the object of that op-context's result Item.
C36_MethodCallRunsCalleeThenResumes ==
    [][phase = "loop" => MethodCallStep]_vars

\* a call with one argument has returned the argument to the caller
C36_ArgumentReturnedToCaller ==
    /\ phase = "loop"
    /\ step = "frame_pop"
    /\ Len(frames) = 1
    /\ methods[2].args = 1
    /\ methods[2].code = ReturnStmt(Arg0)
    /\ frames[1].pending_ops # <<>>
    /\ TopOp(frames[1]).op = UACPI_AML_OP_InternalOpMethodCall0Args + 1
    /\ heap[LastItem(TopOp(frames[1])).obj].type = "INTEGER"
    /\ heap[LastItem(TopOp(frames[1])).obj].integer = 1

\* C37: resolve_name_string in either mode leaves the frame's code_offset at
\* the first byte after the whole name string when it succeeds, and also
\* when a find fails with NOT_FOUND at any segment; when it fails with
\* BAD_BYTECODE or ALREADY_EXISTS it leaves code_offset where it was.
C37_CodeOffsetPastNameString ==
    (unit.fn = "resolve_name_string" /\ unit.done /\ ~unit.crashed) =>
        /\ unit.ret \in {"OK", "NOT_FOUND", "BAD_BYTECODE", "ALREADY_EXISTS"}
        /\ unit.ret = "OK" =>
               frames[1].code_offset = Len(Noop) + Len(NameBytes(unit.in.path))
        /\ (unit.ret = "NOT_FOUND" /\ unit.in.behavior = "FIND") =>
               frames[1].code_offset = Len(Noop) + Len(NameBytes(unit.in.path))
        /\ unit.ret \in {"BAD_BYTECODE", "ALREADY_EXISTS"} =>
               frames[1].code_offset = Len(Noop)

\* a find of \MTH_.BAR_.FOO_ has failed at the last of three segments
C37_MultiNameMissedAtLastSegment ==
    /\ ResolveDone("FIND")
    /\ unit.ret = "NOT_FOUND"
    /\ unit.in.path.root
    /\ unit.in.path.marker = "multi"
    /\ Len(unit.in.path.segs) = 3
    /\ unit.in.foo_at = <<>>
    /\ frames[1].code_offset = Len(Noop) + Len(NameBytes(unit.in.path))
    /\ frames[1].code_offset > Len(Noop) + Len(SegFOO)

ConvertNameStringDone ==
    /\ unit.fn = "convert_namestring"
    /\ unit.done
    /\ ~unit.crashed

\* the roles in which a name stands for the object and is not called
NamedObjectRoles ==
    { UACPI_PARSE_OP_SIMPLE_NAME, UACPI_PARSE_OP_SUPERNAME,
      UACPI_PARSE_OP_SUPERNAME_IMPLICIT_DEREF,
      UACPI_PARSE_OP_SUPERNAME_OR_UNRESOLVED, UACPI_PARSE_OP_TARGET,
      UACPI_PARSE_OP_TERM_ARG_OR_NAMED_OBJECT,
      UACPI_PARSE_OP_TERM_ARG_OR_NAMED_OBJECT_OR_UNRESOLVED }

\* C38: CONVERT_NAMESTRING rewrites the op-context of a resolved name whose
\* node holds a Method to the method call opcode for the method's arg count
\* iff the preempted op before it waits for none of SIMPLE_NAME, SUPERNAME,
\* SUPERNAME_IMPLICIT_DEREF, SUPERNAME_OR_UNRESOLVED, TARGET,
\* TERM_ARG_OR_NAMED_OBJECT and TERM_ARG_OR_NAMED_OBJECT_OR_UNRESOLVED (with
\* no op before it, always), and to the named-object opcode otherwise; either
\* way the parse program restarts at pc = 0 and the Items are kept.
C38_MethodNameCalledUnlessNameWanted ==
    ConvertNameStringDone =>
        LET oc == frames[1].pending_ops[1]
            called == /\ unit.in.holds = "METHOD"
                      /\ unit.in.prev_op \notin NamedObjectRoles
        IN  /\ unit.ret = "OK"
            /\ Len(frames) = 1
            /\ Len(frames[1].pending_ops) = 1
            /\ oc.op = IF called
                       THEN UACPI_AML_OP_InternalOpMethodCall0Args + unit.in.nargs
                       ELSE UACPI_AML_OP_InternalOpNamedObject
            /\ uacpi_get_op_spec(oc.op).code = oc.op
            /\ oc.pc = 0
            /\ ~oc.preempted
            /\ oc.items = ConvertContext.items

\* the name of a method of three arguments, standing where a package element
\* is expected, has become a named object
C38_MethodNameAsPackageElement ==
    /\ ConvertNameStringDone
    /\ unit.in.holds = "METHOD"
    /\ unit.in.nargs = 3
    /\ unit.in.prev_op = UACPI_PARSE_OP_TERM_ARG_OR_NAMED_OBJECT
    /\ frames[1].pending_ops[1].op = UACPI_AML_OP_InternalOpNamedObject

\* C39: a Break or Continue executed in a frame with no While block on its
\* block stack ends the run with an error status: the base Scope block is
\* not popped and no block that is not on the stack is read.
C39_StrayBreakEndsWithError ==
    (/\ hev.code \in {UACPI_AML_OP_BreakOp, UACPI_AML_OP_ContinueOp}
     /\ InnermostWhile(hev.code_blocks) = 0) =>
        /\ phase # "crashed"
        /\ st # "OK"
        /\ frames[hev.frame].code_blocks = hev.code_blocks

InnermostScope(blocks) ==
    IF \E i \in 1 .. Len(blocks) : blocks[i].type = CODE_BLOCK_SCOPE
    THEN CHOOSE i \in 1 .. Len(blocks) :
            /\ blocks[i].type = CODE_BLOCK_SCOPE
            /\ \A j \in (i + 1) .. Len(blocks) : blocks[j].type # CODE_BLOCK_SCOPE
    ELSE 0

\* C40: in every frame on the call stack, whatever blocks have been pushed,
\* ended and left by Break or Continue, cur_scope is the node of the
\* innermost Scope block on the frame's block stack and last_while is the
\* innermost While block on it, none if there is no While block.
C40_ScopeAndWhileFollowBlockStack ==
    \A f \in 1 .. Len(frames) :
        LET blocks == frames[f].code_blocks
        IN  /\ frames[f].last_while = InnermostWhile(blocks)
            /\ InnermostScope(blocks) # 0 =>
                   frames[f].cur_scope = blocks[InnermostScope(blocks)].node

\* a Break has left a Scope of MTH_ inside a While: the scope is the root
\* again
C40_BreakLeftScopeOfMethod ==
    /\ phase = "loop"
    /\ hev.code = UACPI_AML_OP_BreakOp
    /\ Len(hev.code_blocks) >= 3
    /\ hev.code_blocks[3].type = CODE_BLOCK_SCOPE
    /\ hev.code_blocks[3].node = MethodNode
    /\ Len(frames[1].code_blocks) = 1
    /\ frames[1].cur_scope = RootNode
    /\ frames[1].last_while = 0

====
